---- MODULE Spec2Model ----
(***************************************************************************)
(* Y2K-statsbook: the historical results classifier                        *)
(* (tools/build_history.py), the head-to-head aggregator                   *)
(* (tools/init_h2h_records.py), the weekly incremental update              *)
(* (tools/generate_preview.py) and the identity merge                      *)
(* (dashboards/dashboard_h2h.py, dashboards/dashboard_streaks.py).         *)
(*                                                                         *)
(* Python values are modelled as follows.  A dict with fixed keys is a     *)
(* record with the same field names.  A list is a sequence.  A dict keyed  *)
(* by strings (the H2H store) is the sequence of its entries in insertion  *)
(* order, because the merge iterates over it.  None is the string "None"   *)
(* where a name is expected and the record NoGame where a                  *)
(* {"season","week"} dict is expected.  Nicknames and store keys are       *)
(* strings, compared character by character as Python compares them.       *)
(***************************************************************************)
EXTENDS Integers, Sequences, FiniteSets, TLC

(***************************************************************************)
(* Strings                                                                 *)
(***************************************************************************)

None == "None"

NoGame == [season |-> -1, week |-> -1]

\* Code points of the characters that occur in the nicknames of the model.
Ord(c) ==
    CASE c = "-" -> 45
      [] c = "D" -> 68
      [] c = "R" -> 82
      [] c = "T" -> 84
      [] c = "a" -> 97
      [] c = "c" -> 99
      [] c = "d" -> 100
      [] c = "e" -> 101
      [] c = "h" -> 104
      [] c = "i" -> 105
      [] c = "k" -> 107
      [] c = "l" -> 108
      [] c = "n" -> 110
      [] c = "o" -> 111
      [] c = "p" -> 112
      [] c = "r" -> 114
      [] c = "y" -> 121

CharAt(s, i) == SubSeq(s, i, i)

Min2(a, b) == IF a <= b THEN a ELSE b

\* Python's str.__lt__: lexicographic order on code points.
StrLess(s, t) ==
    \E i \in 1..(Min2(Len(s), Len(t)) + 1) :
        /\ \A j \in 1..(i - 1) : CharAt(s, j) = CharAt(t, j)
        /\ \/ i = Len(s) + 1 /\ i <= Len(t)
           \/ i <= Len(s) /\ i <= Len(t) /\ Ord(CharAt(s, i)) < Ord(CharAt(t, i))

StrMin(a, b) == IF StrLess(b, a) THEN b ELSE a

StrMax(a, b) == IF StrLess(a, b) THEN b ELSE a

\* "-".join(sorted([a, b]))
PairKey(a, b) == StrMin(a, b) \o "-" \o StrMax(a, b)

\* Python's "source in key" on strings: substring test.
StrContains(source, key) ==
    \E i \in 1..(Len(key) - Len(source) + 1) :
        SubSeq(key, i, i + Len(source) - 1) = source

\* str.replace(source, target) on a nickname: the nicknames of the model
\* contain the alias only as the whole string.
StrReplace(s, source, target) == IF s = source THEN target ELSE s

\* str.lower() on one character.
LowerChar(c) ==
    LET upper == "ABCDEFGHIJKLMNOPQRSTUVWXYZ"
        lower == "abcdefghijklmnopqrstuvwxyz"
    IN  IF \E i \in 1..Len(upper) : CharAt(upper, i) = c
        THEN CharAt(lower, CHOOSE i \in 1..Len(upper) : CharAt(upper, i) = c)
        ELSE c

RECURSIVE StrLower(_)
\* str.lower().
StrLower(s) ==
    IF s = "" THEN ""
    ELSE LowerChar(CharAt(s, 1)) \o StrLower(SubSeq(s, 2, Len(s)))

(***************************************************************************)
(* Sequences                                                               *)
(***************************************************************************)

Range(s) == {s[i] : i \in DOMAIN s}

GameBefore(a, b) ==
    \/ a.season < b.season
    \/ a.season = b.season /\ a.week < b.week

\* list.sort(key=...) and sorted(...): a stable sort.  Before(a, b) is the
\* strict order on the sort keys; elements with equal keys keep their order.
StableSort(s, Before(_, _)) ==
    LET n == Len(s)
        rank == [i \in 1..n |->
                    Cardinality({j \in 1..n :
                        \/ Before(s[j], s[i])
                        \/ ~Before(s[i], s[j]) /\ j < i}) + 1]
    IN  [r \in 1..n |-> s[CHOOSE i \in 1..n : rank[i] = r]]

Reverse(s) == [i \in 1..Len(s) |-> s[Len(s) + 1 - i]]

Front(s) == SubSeq(s, 1, Len(s) - 1)

Last(s) == s[Len(s)]

(***************************************************************************)
(* The H2H store: a Python dict, as the sequence of its entries in         *)
(* insertion order.                                                        *)
(***************************************************************************)

DictKeys(d) == {d[i].key : i \in DOMAIN d}

DictHas(d, k) == k \in DictKeys(d)

DictGet(d, k) == d[CHOOSE i \in DOMAIN d : d[i].key = k].value

\* d[k] = v: an existing key keeps its position, a new key goes last.
DictSet(d, k, v) ==
    IF DictHas(d, k)
    THEN [i \in DOMAIN d |-> IF d[i].key = k THEN [key |-> k, value |-> v] ELSE d[i]]
    ELSE Append(d, [key |-> k, value |-> v])

\* del d[k]
DictDel(d, k) ==
    LET Keep(e) == e.key # k IN SelectSeq(d, Keep)

(***************************************************************************)
(* tools/init_h2h_records.py                                               *)
(***************************************************************************)

PlayoffTypes == {"QF", "SF", "1st", "3rd"}

GameTypes == {"regular", "QF", "SF", "1st", "3rd", "consolation"}

\* The result of calculate_h2h_for_pair for a pair without games.
NoRecord == [absent |-> TRUE]

GameInfo(game) ==
    [winner |-> game.winner_manager_name, type |-> game.game_type,
     season |-> game.season, week |-> game.week]

GameDate(game) == [season |-> game.season, week |-> game.week]

\* Lines 8-12: the games between exactly this pair, sorted by (season, week).
RelevantGames(name1, name2, all_matchups) ==
    LET Between(g) == {g.team1_manager_name, g.team2_manager_name} = {name1, name2}
    IN  StableSort(SelectSeq(all_matchups, Between), GameBefore)

RECURSIVE TallyWinsCountingConsolation(_, _, _)
\* The tally without the skip of lines 25-26: a consolation game is counted
\* as a regular-season game.
TallyWinsCountingConsolation(games, name1, name2) ==
    IF games = <<>>
    THEN [n1_reg_wins |-> 0, n2_reg_wins |-> 0,
          n1_playoff_wins |-> 0, n2_playoff_wins |-> 0,
          playoff_history |-> <<>>, regular_history |-> <<>>]
    ELSE LET t == TallyWinsCountingConsolation(Front(games), name1, name2)
             game == Last(games)
             game_info == GameInfo(game)
         IN  IF game.winner_manager_name = name1
             THEN IF game.game_type \in PlayoffTypes
                  THEN [t EXCEPT !.n1_playoff_wins = @ + 1,
                                 !.playoff_history = Append(@, game_info)]
                  ELSE [t EXCEPT !.n1_reg_wins = @ + 1,
                                 !.regular_history = Append(@, game_info)]
             ELSE IF game.winner_manager_name = name2
             THEN IF game.game_type \in PlayoffTypes
                  THEN [t EXCEPT !.n2_playoff_wins = @ + 1,
                                 !.playoff_history = Append(@, game_info)]
                  ELSE [t EXCEPT !.n2_reg_wins = @ + 1,
                                 !.regular_history = Append(@, game_info)]
             ELSE t

RECURSIVE TallyWins(_, _, _)
\* Lines 17-43: the win counters and the two history lists.
TallyWins(games, name1, name2) ==
    IF games = <<>>
    THEN [n1_reg_wins |-> 0, n2_reg_wins |-> 0,
          n1_playoff_wins |-> 0, n2_playoff_wins |-> 0,
          playoff_history |-> <<>>, regular_history |-> <<>>]
    ELSE LET t == TallyWins(Front(games), name1, name2)
             game == Last(games)
             game_info == GameInfo(game)
         IN  IF game.game_type = "consolation" THEN t
             ELSE IF game.winner_manager_name = name1
             THEN IF game.game_type \in PlayoffTypes
                  THEN [t EXCEPT !.n1_playoff_wins = @ + 1,
                                 !.playoff_history = Append(@, game_info)]
                  ELSE [t EXCEPT !.n1_reg_wins = @ + 1,
                                 !.regular_history = Append(@, game_info)]
             ELSE IF game.winner_manager_name = name2
             THEN IF game.game_type \in PlayoffTypes
                  THEN [t EXCEPT !.n2_playoff_wins = @ + 1,
                                 !.playoff_history = Append(@, game_info)]
                  ELSE [t EXCEPT !.n2_reg_wins = @ + 1,
                                 !.regular_history = Append(@, game_info)]
             ELSE t

RECURSIVE LongestStreakPassKeepingLast(_)
\* The pass with >= for > in line 65: of two streaks of the same length the
\* later one is kept.
LongestStreakPassKeepingLast(games) ==
    IF games = <<>>
    THEN [longest_streak_holder |-> None, longest_streak_len |-> 0,
          longest_streak_start_game |-> NoGame, longest_streak_end_game |-> NoGame,
          current_streak_start_game |-> NoGame,
          current_streak_holder |-> None, current_streak_len |-> 0]
    ELSE LET s == LongestStreakPassKeepingLast(Front(games))
             game == Last(games)
             winner == game.winner_manager_name
             c == IF winner = s.current_streak_holder
                  THEN [s EXCEPT !.current_streak_len = @ + 1]
                  ELSE [s EXCEPT !.current_streak_holder = winner,
                                 !.current_streak_len = 1,
                                 !.current_streak_start_game = GameDate(game)]
         IN  IF winner = None
             THEN [s EXCEPT !.current_streak_holder = None, !.current_streak_len = 0]
             ELSE IF c.current_streak_len >= c.longest_streak_len
             THEN [c EXCEPT !.longest_streak_len = c.current_streak_len,
                            !.longest_streak_holder = c.current_streak_holder,
                            !.longest_streak_start_game = c.current_streak_start_game,
                            !.longest_streak_end_game = GameDate(game)]
             ELSE c

RECURSIVE LongestStreakPass(_)
\* Lines 47-69: the running streak and the longest streak seen so far.
LongestStreakPass(games) ==
    IF games = <<>>
    THEN [longest_streak_holder |-> None, longest_streak_len |-> 0,
          longest_streak_start_game |-> NoGame, longest_streak_end_game |-> NoGame,
          current_streak_start_game |-> NoGame,
          current_streak_holder |-> None, current_streak_len |-> 0]
    ELSE LET s == LongestStreakPass(Front(games))
             game == Last(games)
             winner == game.winner_manager_name
             c == IF winner = s.current_streak_holder
                  THEN [s EXCEPT !.current_streak_len = @ + 1]
                  ELSE [s EXCEPT !.current_streak_holder = winner,
                                 !.current_streak_len = 1,
                                 !.current_streak_start_game = GameDate(game)]
         IN  IF winner = None
             THEN [s EXCEPT !.current_streak_holder = None, !.current_streak_len = 0]
             ELSE IF c.current_streak_len > c.longest_streak_len
             THEN [c EXCEPT !.longest_streak_len = c.current_streak_len,
                            !.longest_streak_holder = c.current_streak_holder,
                            !.longest_streak_start_game = c.current_streak_start_game,
                            !.longest_streak_end_game = GameDate(game)]
             ELSE c

RECURSIVE TrailingRun(_, _)
\* Lines 75-79: the games at the end of the list won by streak_holder_name.
TrailingRun(games, streak_holder_name) ==
    IF games = <<>> THEN 0
    ELSE IF Last(games).winner_manager_name = streak_holder_name
    THEN TrailingRun(Front(games), streak_holder_name) + 1
    ELSE 0

\* Lines 71-79.
CurrentStreak(relevant_games) ==
    LET last_game == Last(relevant_games)
    IN  IF last_game.winner_manager_name # None
        THEN [streak_holder |-> last_game.winner_manager_name,
              streak_len |-> TrailingRun(relevant_games, last_game.winner_manager_name)]
        ELSE [streak_holder |-> None, streak_len |-> 0]

calculate_h2h_for_pair(name1, name2, all_matchups) ==
    LET relevant_games == RelevantGames(name1, name2, all_matchups)
        t == TallyWins(relevant_games, name1, name2)
        l == LongestStreakPass(relevant_games)
        c == CurrentStreak(relevant_games)
    IN  IF relevant_games = <<>> THEN NoRecord
        ELSE [manager1_name |-> name1,
              manager2_name |-> name2,
              reg_wins_1 |-> t.n1_reg_wins,
              reg_wins_2 |-> t.n2_reg_wins,
              playoff_wins_1 |-> t.n1_playoff_wins,
              playoff_wins_2 |-> t.n2_playoff_wins,
              playoff_history |-> t.playoff_history,
              regular_history |-> t.regular_history,
              streak_holder |-> c.streak_holder,
              streak_len |-> c.streak_len,
              longest_streak_holder |-> l.longest_streak_holder,
              longest_streak_len |-> l.longest_streak_len,
              longest_streak_start_game |-> l.longest_streak_start_game,
              longest_streak_end_game |-> l.longest_streak_end_game,
              last_game |-> GameDate(Last(relevant_games))]

\* Lines 113-116: the nicknames that occur in the ledger.
ManagerNames(historical_data) ==
    {historical_data[i].team1_manager_name : i \in DOMAIN historical_data}
        \cup {historical_data[i].team2_manager_name : i \in DOMAIN historical_data}

\* The orders in which Python may iterate over a set of strings: the order
\* depends on the string hashes, which differ from one process to the next.
RECURSIVE AllOrders(_)
AllOrders(S) ==
    IF S = {} THEN {<<>>}
    ELSE UNION {{<<x>> \o p : p \in AllOrders(S \ {x})} : x \in S}

RECURSIVE SortedStrings(_)
SortedStrings(S) ==
    IF S = {} THEN <<>>
    ELSE LET first == CHOOSE x \in S : \A y \in S \ {x} : StrLess(x, y)
         IN  <<first>> \o SortedStrings(S \ {first})

\* Every order of the set.
SetOrders(S) == AllOrders(S)

RECURSIVE Combinations2(_)
\* itertools.combinations(order, 2), in the order it yields the pairs.
Combinations2(order) ==
    IF Len(order) < 2 THEN <<>>
    ELSE [j \in 1..(Len(order) - 1) |-> <<order[1], order[j + 1]>>]
             \o Combinations2(Tail(order))

RECURSIVE StoreOfPairs(_, _)
\* Lines 126-132.
StoreOfPairs(manager_pairs, historical_data) ==
    IF manager_pairs = <<>> THEN <<>>
    ELSE LET all_h2h_records == StoreOfPairs(Front(manager_pairs), historical_data)
             name1 == Last(manager_pairs)[1]
             name2 == Last(manager_pairs)[2]
             h2h_record == calculate_h2h_for_pair(name1, name2, historical_data)
         IN  IF h2h_record # NoRecord
             THEN DictSet(all_h2h_records, PairKey(name1, name2), h2h_record)
             ELSE all_h2h_records

\* initialize_h2h_records, given the iteration order of manager_names.
initialize_h2h_records(historical_data, order) ==
    StoreOfPairs(Combinations2(order), historical_data)

(***************************************************************************)
(* Raw matchups (yfpy objects).  A matchup is                              *)
(*   [week, teams, is_tied, winner_team_key, is_playoffs, is_consolation,  *)
(*    is_third_place]                                                      *)
(* and a team is [team_key, managers, points] with managers the list of    *)
(* the managers' nicknames.  The snapshot raw_data is the list of its      *)
(* seasons [season, settings, weeks] in dict order, weeks the list of      *)
(* [week, matchups] in dict order; the keys str(season) and str(week) are  *)
(* kept as the integers int() reads back.                                  *)
(***************************************************************************)

NoSettings == [absent |-> TRUE]

(***************************************************************************)
(* tools/generate_preview.py                                               *)
(***************************************************************************)

\* Lines 40-52: the game type the weekly update derives from the flags.
UpdateGameType(matchup, settings) ==
    LET week_offset == matchup.week - settings.playoff_start_week
    IN  IF ~matchup.is_playoffs THEN "regular"
        ELSE IF matchup.is_consolation THEN "consolation"
        ELSE IF matchup.is_third_place THEN "3rd"
        ELSE IF settings.num_playoff_teams >= 6
        THEN IF week_offset = 0 THEN "QF"
             ELSE IF week_offset = 1 THEN "SF"
             ELSE "1st"
        ELSE IF week_offset = 0 THEN "SF"
             ELSE "1st"

\* Adds a key that a record lacks (lines 67-70).
EnsureField(record, field, v) ==
    IF field \in DOMAIN record THEN record
    ELSE [f \in DOMAIN record \cup {field} |-> IF f = field THEN v ELSE record[f]]

\* Lines 28-97: the body of the loop, for one matchup.
UpdateWithMatchup(h2h_records, matchup, season, settings) ==
    LET manager1 == matchup.teams[1].managers[1]
        manager2 == matchup.teams[2].managers[1]
        key == PairKey(manager1, manager2)
        game_type == UpdateGameType(matchup, settings)
        record == EnsureField(EnsureField(DictGet(h2h_records, key),
                                          "playoff_history", <<>>),
                              "regular_history", <<>>)
        winner_name ==
            IF ~matchup.is_tied
            THEN IF matchup.winner_team_key = matchup.teams[1].team_key
                 THEN manager1 ELSE manager2
            ELSE None
        is_manager1_winner == winner_name = record.manager1_name
        entry == [winner |-> winner_name, type |-> game_type,
                  season |-> season, week |-> matchup.week]
        counted ==
            IF game_type \in PlayoffTypes
            THEN IF is_manager1_winner
                 THEN [record EXCEPT !.playoff_wins_1 = @ + 1,
                                     !.playoff_history = Append(@, entry)]
                 ELSE [record EXCEPT !.playoff_wins_2 = @ + 1,
                                     !.playoff_history = Append(@, entry)]
            ELSE IF is_manager1_winner
                 THEN [record EXCEPT !.reg_wins_1 = @ + 1,
                                     !.regular_history = Append(@, entry)]
                 ELSE [record EXCEPT !.reg_wins_2 = @ + 1,
                                     !.regular_history = Append(@, entry)]
        streaked ==
            IF counted.streak_holder = winner_name
            THEN [counted EXCEPT !.streak_len = @ + 1]
            ELSE [counted EXCEPT !.streak_holder = winner_name, !.streak_len = 1]
        updated ==
            [streaked EXCEPT !.last_game = [season |-> season, week |-> matchup.week]]
    IN  IF manager1 = "--hidden--" \/ manager2 = "--hidden--" THEN h2h_records
        ELSE IF ~DictHas(h2h_records, key) THEN h2h_records
        ELSE IF game_type = "consolation" THEN h2h_records
        ELSE IF winner_name = None THEN h2h_records
        ELSE DictSet(h2h_records, key, updated)

RECURSIVE update_h2h_records(_, _, _, _)
update_h2h_records(week_results, h2h_records, season, settings) ==
    IF week_results = <<>> THEN h2h_records
    ELSE UpdateWithMatchup(
             update_h2h_records(Front(week_results), h2h_records, season, settings),
             Last(week_results), season, settings)

(***************************************************************************)
(* tools/build_history.py                                                  *)
(***************************************************************************)

YOUR_NICKNAME == "Dylan"

\* The selection without the co-manager rule of lines 29-32: the first
\* listed manager.
FirstListedManager(team, operator_nickname) == team.managers[1]

get_primary_manager(team, operator_nickname) ==
    LET NotOperator(m) == m # operator_nickname
        other_managers == SelectSeq(team.managers, NotOperator)
    IN  IF Len(team.managers) = 1 THEN team.managers[1]
        ELSE IF Len(other_managers) > 0 THEN other_managers[1]
        ELSE team.managers[1]

RECURSIVE RegularSeasonMatchups(_, _)
\* Lines 61-63: the matchups of the weeks before playoff_start_week.
RegularSeasonMatchups(weeks_data, playoff_start_week) ==
    IF weeks_data = <<>> THEN <<>>
    ELSE LET w == Head(weeks_data)
             rest == RegularSeasonMatchups(Tail(weeks_data), playoff_start_week)
         IN  IF w.week >= playoff_start_week THEN rest ELSE w.matchups \o rest

\* Line 67: the managers of the regular season.
RegularSeasonManagers(reg_matchups) ==
    UNION {{get_primary_manager(reg_matchups[i].teams[1], YOUR_NICKNAME),
            get_primary_manager(reg_matchups[i].teams[2], YOUR_NICKNAME)} :
           i \in DOMAIN reg_matchups}

RECURSIVE RegSeasonRecord(_, _)
\* Lines 59-72: reg_season_records[name] after pass 1.
RegSeasonRecord(reg_matchups, name) ==
    IF reg_matchups = <<>> THEN [wins |-> 0, losses |-> 0, pf |-> 0]
    ELSE LET r == RegSeasonRecord(Front(reg_matchups), name)
             m == Last(reg_matchups)
             team1 == m.teams[1]
             team2 == m.teams[2]
             manager1 == get_primary_manager(team1, YOUR_NICKNAME)
             manager2 == get_primary_manager(team2, YOUR_NICKNAME)
             winner_check == IF team1.points > team2.points THEN manager1 ELSE manager2
             loser_check == IF winner_check = manager1 THEN manager2 ELSE manager1
         IN  [wins |-> r.wins + (IF winner_check = name THEN 1 ELSE 0),
              losses |-> r.losses + (IF loser_check = name THEN 1 ELSE 0),
              pf |-> r.pf + (IF manager1 = name THEN team1.points ELSE 0)
                          + (IF manager2 = name THEN team2.points ELSE 0)]

\* Line 73: sorted(list(managers), key=(wins, pf), reverse=True).  order is
\* the iteration order of the set; a reverse sort keeps the order of equals.
SortedManagers(reg_matchups, order) ==
    LET managers == RegularSeasonManagers(reg_matchups)
        InSeason(name) == name \in managers
        listed == SelectSeq(order, InSeason)
        keyed == [i \in DOMAIN listed |->
                     [name |-> listed[i],
                      record |-> RegSeasonRecord(reg_matchups, listed[i])]]
        Better(a, b) ==
            \/ a.record.wins > b.record.wins
            \/ a.record.wins = b.record.wins /\ a.record.pf > b.record.pf
        sorted == StableSort(keyed, Better)
    IN  [i \in DOMAIN sorted |-> sorted[i].name]

\* Line 74.
TopSeedsWithByes(season_data, order) ==
    LET sorted_managers ==
            SortedManagers(RegularSeasonMatchups(season_data.weeks,
                               season_data.settings.playoff_start_week), order)
    IN  IF season_data.settings.num_playoff_teams >= 6
        THEN SubSeq(sorted_managers, 1, Min2(2, Len(sorted_managers)))
        ELSE <<>>

\* Lines 89-95.
WinnerOf(m) ==
    LET manager1 == get_primary_manager(m.teams[1], YOUR_NICKNAME)
        manager2 == get_primary_manager(m.teams[2], YOUR_NICKNAME)
    IN  IF m.is_tied THEN None
        ELSE IF m.teams[1].points > m.teams[2].points THEN manager1 ELSE manager2

LoserOf(m) ==
    LET manager1 == get_primary_manager(m.teams[1], YOUR_NICKNAME)
        manager2 == get_primary_manager(m.teams[2], YOUR_NICKNAME)
    IN  IF m.is_tied THEN None
        ELSE IF WinnerOf(m) = manager1 THEN manager2 ELSE manager1

\* The classifier whose else of line 114 assigns None in place of
\* "consolation": in the final week of the six-team bracket a matchup that
\* is neither the final nor the third-place game has no label.
ClassifyGameTypeUnlabelled(st, week, m, settings, top_seeds_with_byes) ==
    LET pair == {get_primary_manager(m.teams[1], YOUR_NICKNAME),
                 get_primary_manager(m.teams[2], YOUR_NICKNAME)}
        week_offset == week - settings.playoff_start_week
    IN  IF m.is_consolation THEN "consolation"
        ELSE IF ~m.is_playoffs THEN "regular"
        ELSE IF settings.num_playoff_teams >= 6
        THEN IF week_offset = 0 THEN "QF"
             ELSE IF week_offset = 1
             THEN IF pair \subseteq (Range(st.qf_winners) \cup Range(top_seeds_with_byes))
                  THEN "SF" ELSE "consolation"
             ELSE IF week_offset = 2
             THEN IF pair \subseteq Range(st.semi_final_winners) THEN "1st"
                  ELSE IF pair \subseteq Range(st.semi_final_losers) THEN "3rd"
                  ELSE None
             ELSE "regular"
        ELSE IF week_offset = 0 THEN "SF"
             ELSE IF week_offset = 1
             THEN IF pair \subseteq Range(st.semi_final_winners) THEN "1st" ELSE "3rd"
             ELSE "regular"

\* Lines 98-120: the game type of matchup m of the given week, where st
\* holds qf_winners, semi_final_winners and semi_final_losers so far.
ClassifyGameType(st, week, m, settings, top_seeds_with_byes) ==
    LET pair == {get_primary_manager(m.teams[1], YOUR_NICKNAME),
                 get_primary_manager(m.teams[2], YOUR_NICKNAME)}
        week_offset == week - settings.playoff_start_week
    IN  IF m.is_consolation THEN "consolation"
        ELSE IF ~m.is_playoffs THEN "regular"
        ELSE IF settings.num_playoff_teams >= 6
        THEN IF week_offset = 0 THEN "QF"
             ELSE IF week_offset = 1
             THEN IF pair \subseteq (Range(st.qf_winners) \cup Range(top_seeds_with_byes))
                  THEN "SF" ELSE "consolation"
             ELSE IF week_offset = 2
             THEN IF pair \subseteq Range(st.semi_final_winners) THEN "1st"
                  ELSE IF pair \subseteq Range(st.semi_final_losers) THEN "3rd"
                  ELSE "consolation"
             ELSE "regular"
        ELSE IF week_offset = 0 THEN "SF"
             ELSE IF week_offset = 1
             THEN IF pair \subseteq Range(st.semi_final_winners) THEN "1st" ELSE "3rd"
             ELSE "regular"

\* Lines 83-127: the body of the inner loop of pass 2, for one matchup.
ClassifyMatchup(st, season, week, m, settings, top_seeds_with_byes) ==
    LET game_type == ClassifyGameType(st, week, m, settings, top_seeds_with_byes)
        winner == WinnerOf(m)
        loser == LoserOf(m)
        is_qf == game_type = "QF"
        is_sf == game_type = "SF"
    IN  [qf_winners |-> IF is_qf THEN Append(st.qf_winners, winner) ELSE st.qf_winners,
         semi_final_winners |->
             IF is_sf THEN Append(st.semi_final_winners, winner)
             ELSE st.semi_final_winners,
         semi_final_losers |->
             IF is_sf THEN Append(st.semi_final_losers, loser)
             ELSE st.semi_final_losers,
         out |-> Append(st.out,
                    [season |-> season, week |-> week, game_type |-> game_type,
                     team1_manager_name |-> get_primary_manager(m.teams[1], YOUR_NICKNAME),
                     team2_manager_name |-> get_primary_manager(m.teams[2], YOUR_NICKNAME),
                     team1_score |-> m.teams[1].points,
                     team2_score |-> m.teams[2].points,
                     winner_manager_name |-> winner])]

RECURSIVE ClassifyMatchups(_, _, _, _, _, _)
ClassifyMatchups(st, season, week, matchups, settings, top_seeds_with_byes) ==
    IF matchups = <<>> THEN st
    ELSE ClassifyMatchup(
             ClassifyMatchups(st, season, week, Front(matchups), settings,
                              top_seeds_with_byes),
             season, week, Last(matchups), settings, top_seeds_with_byes)

RECURSIVE ClassifyWeeks(_, _, _, _, _)
\* Lines 79-127: pass 2 over the weeks of one season, in dict order.
ClassifyWeeks(st, season, weeks_data, settings, top_seeds_with_byes) ==
    IF weeks_data = <<>> THEN st
    ELSE ClassifyMatchups(
             ClassifyWeeks(st, season, Front(weeks_data), settings, top_seeds_with_byes),
             season, Last(weeks_data).week, Last(weeks_data).matchups,
             settings, top_seeds_with_byes)

\* Line 53: a season without settings or without weeks is skipped.
SeasonSkipped(season_data) ==
    season_data.settings = NoSettings \/ season_data.weeks = <<>>

\* Lines 55-127 for one season: the bracket lists and the season's records.
ClassifySeason(season_data, order) ==
    ClassifyWeeks([qf_winners |-> <<>>, semi_final_winners |-> <<>>,
                   semi_final_losers |-> <<>>, out |-> <<>>],
                  season_data.season, season_data.weeks, season_data.settings,
                  TopSeedsWithByes(season_data, order))

\* Lines 27-34 with an empty list of managers: len(team.managers) is not 1,
\* other_managers is empty, and team.managers[0] raises IndexError.
HasNoManager(team) == team.managers = <<>>

\* Lines 65-66 and 85-86 reach a team without managers in a season that is
\* not skipped: the exception leaves build_historical_data_from_cache
\* before line 129.
RaisesIndexError(raw_data) ==
    \E s \in DOMAIN raw_data :
        /\ ~SeasonSkipped(raw_data[s])
        /\ \E w \in DOMAIN raw_data[s].weeks :
               \E m \in DOMAIN raw_data[s].weeks[w].matchups :
                   \E t \in 1..2 : HasNoManager(raw_data[s].weeks[w].matchups[m].teams[t])

RECURSIVE BuildStoppingAtSkippedSeason(_, _)
\* The loop of line 48 with a break at a skipped season, in place of the
\* continue of line 53: the seasons after it add no record.
BuildStoppingAtSkippedSeason(raw_data, orders) ==
    IF raw_data = <<>> THEN <<>>
    ELSE LET all_matchups_data == BuildStoppingAtSkippedSeason(Front(raw_data), orders)
             season_data == Last(raw_data)
             stopped == \E s \in DOMAIN raw_data : SeasonSkipped(raw_data[s])
         IN  IF stopped THEN all_matchups_data
             ELSE all_matchups_data
                      \o ClassifySeason(season_data, orders[Len(raw_data)]).out

RECURSIVE build_historical_data_from_cache(_, _)
\* Lines 46-127: all_matchups_data for the snapshot raw_data.  The set
\* managers is built anew for every season (line 60), so orders[s] is the
\* order in which the set of the s-th season of raw_data is iterated.
build_historical_data_from_cache(raw_data, orders) ==
    IF raw_data = <<>> THEN <<>>
    ELSE LET all_matchups_data == build_historical_data_from_cache(Front(raw_data), orders)
             season_data == Last(raw_data)
         IN  IF SeasonSkipped(season_data) THEN all_matchups_data
             ELSE all_matchups_data
                      \o ClassifySeason(season_data, orders[Len(raw_data)]).out

(***************************************************************************)
(* dashboards/dashboard_h2h.py and dashboards/dashboard_streaks.py         *)
(*                                                                         *)
(* merge_manager_data mutates the store while it iterates over it.  The    *)
(* dict iterator compares the size of the dict with the size it had when   *)
(* the iteration began before it yields each entry and before it reports   *)
(* the end, and raises RuntimeError when they differ.  A merge returns     *)
(* [store, error]: the store in memory when the function returned or       *)
(* raised, and the exception raised ("none" when it returned).             *)
(***************************************************************************)

MergeSource == "--hidden--"

MergeTarget == "Ryan"

\* Lines 37-41 of dashboard_h2h.py.
ShellRecord(target, opponent) ==
    [manager1_name |-> StrMin(target, opponent),
     manager2_name |-> StrMax(target, opponent),
     reg_wins_1 |-> 0, reg_wins_2 |-> 0, playoff_wins_1 |-> 0, playoff_wins_2 |-> 0,
     playoff_history |-> <<>>, streak_holder |-> None, streak_len |-> 0,
     last_game |-> [season |-> 0, week |-> 0]]

SeasonBefore(a, b) == a.season < b.season

\* Lines 50-53 of dashboard_h2h.py: the four += statements, in order.
MergeWinCounters(target_record, record, source_is_m1, target_is_m1) ==
    LET t1 == [target_record EXCEPT
                  ![IF target_is_m1 THEN "reg_wins_1" ELSE "reg_wins_2"] =
                      @ + record[IF source_is_m1 THEN "reg_wins_1" ELSE "reg_wins_2"]]
        t2 == [t1 EXCEPT
                  ![IF target_is_m1 THEN "reg_wins_2" ELSE "reg_wins_1"] =
                      @ + record[IF source_is_m1 THEN "reg_wins_2" ELSE "reg_wins_1"]]
        t3 == [t2 EXCEPT
                  ![IF target_is_m1 THEN "playoff_wins_1" ELSE "playoff_wins_2"] =
                      @ + record[IF source_is_m1 THEN "playoff_wins_1" ELSE "playoff_wins_2"]]
    IN  [t3 EXCEPT
            ![IF target_is_m1 THEN "playoff_wins_2" ELSE "reg_wins_1"] =
                @ + record[IF source_is_m1 THEN "playoff_wins_2" ELSE "playoff_wins_1"]]

\* Lines 29-65 of dashboard_h2h.py: the body of the loop for one entry whose
\* key contains the source.
H2hMergeEntry(h2h_data, record, source, target) ==
    LET opponent == IF record.manager2_name = source
                    THEN record.manager1_name ELSE record.manager2_name
        new_key == PairKey(target, opponent)
        d1 == IF ~DictHas(h2h_data, new_key)
              THEN DictSet(h2h_data, new_key, ShellRecord(target, opponent))
              ELSE h2h_data
        target_record == DictGet(d1, new_key)
        source_is_m1 == record.manager1_name = opponent
        target_is_m1 == target_record.manager1_name = opponent
        counted == MergeWinCounters(target_record, record, source_is_m1, target_is_m1)
        extended == [counted EXCEPT !.playoff_history =
                        StableSort(@ \o record.playoff_history, SeasonBefore)]
        later == \/ record.last_game.season > extended.last_game.season
                 \/ /\ record.last_game.season = extended.last_game.season
                    /\ record.last_game.week > extended.last_game.week
        dated == [extended EXCEPT !.last_game = record.last_game]
        streaked == [dated EXCEPT
                        !.streak_holder = StrReplace(record.streak_holder, source, target),
                        !.streak_len = record.streak_len]
    IN  IF ~later THEN [store |-> DictSet(d1, new_key, extended), error |-> "none"]
        ELSE IF record.streak_holder = None
        THEN [store |-> DictSet(d1, new_key, dated), error |-> "AttributeError"]
        ELSE [store |-> DictSet(d1, new_key, streaked), error |-> "none"]

\* Lines 31-42 of dashboard_streaks.py: the body of the loop for one entry
\* whose key contains the source.  The record is remapped in place, so the
\* old key shows the remapped record too.
StreaksMergeEntry(h2h_data, key, record, source, target) ==
    LET opponent == IF record.manager2_name = source
                    THEN record.manager1_name ELSE record.manager2_name
        new_key == PairKey(target, opponent)
        renamed == [record EXCEPT !.manager1_name = StrMin(target, opponent),
                                  !.manager2_name = StrMax(target, opponent)]
        remapped == IF "longest_streak_holder" \in DOMAIN record
                       /\ record.longest_streak_holder = source
                    THEN [renamed EXCEPT !.longest_streak_holder = target]
                    ELSE renamed
    IN  IF ~DictHas(h2h_data, new_key)
        THEN [store |-> DictSet(DictSet(h2h_data, key, remapped), new_key, remapped),
              error |-> "none"]
        ELSE [store |-> h2h_data, error |-> "none"]

\* The body of the loop of either dashboard, chosen by its name.
MergeEntry(dashboard, h2h_data, key, record, source, target) ==
    IF dashboard = "dashboard_h2h"
    THEN H2hMergeEntry(h2h_data, record, source, target)
    ELSE StreaksMergeEntry(h2h_data, key, record, source, target)

RECURSIVE MergeLoop(_, _, _, _, _, _)
\* for key, record in h2h_data.items(): ... from entry i on, where n is the
\* size of the dict when the iteration began.
MergeLoop(dashboard, h2h_data, i, n, source, target) ==
    IF Len(h2h_data) # n THEN [store |-> h2h_data, error |-> "RuntimeError"]
    ELSE IF i > n THEN [store |-> h2h_data, error |-> "none"]
    ELSE IF ~StrContains(source, h2h_data[i].key)
    THEN MergeLoop(dashboard, h2h_data, i + 1, n, source, target)
    ELSE LET step == MergeEntry(dashboard, h2h_data, h2h_data[i].key,
                                h2h_data[i].value, source, target)
         IN  IF step.error # "none" THEN step
             ELSE MergeLoop(dashboard, step.store, i + 1, n, source, target)

\* merge_manager_data of the named dashboard, for MANAGERS_TO_MERGE =
\* {source: target}: the loop, then the deletion of keys_to_delete.
merge_manager_data(dashboard, h2h_data, source, target) ==
    LET looped == MergeLoop(dashboard, h2h_data, 1, Len(h2h_data), source, target)
        Kept(e) == ~StrContains(source, e.key)
    IN  IF looped.error # "none" THEN looped
        ELSE [store |-> SelectSeq(looped.store, Kept), error |-> "none"]

\* tools/build_raw_data_cache.py, line 96: the weeks of a season that are
\* fetched.
TotalWeeks(settings) ==
    IF settings.num_playoff_teams >= 6 THEN settings.playoff_start_week + 2
    ELSE settings.playoff_start_week + 1

(***************************************************************************)
(* Bounds and inputs of the model                                          *)
(***************************************************************************)

\* The number of completed weeks the league reaches.
MaxWeeks == 3

\* The weeks of a season that the league plays in the model.
WeeksPerSeason == 2

\* The league settings the API returns for every season.
PlayoffStartWeek == 2

NumPlayoffTeams == 4

FirstSeason == 2024

LeagueSettings ==
    [playoff_start_week |-> PlayoffStartWeek, num_playoff_teams |-> NumPlayoffTeams]

\* The (season, week) of the i-th week the league completes.
Calendar(i) ==
    [season |-> FirstSeason + ((i - 1) \div WeeksPerSeason),
     week |-> ((i - 1) % WeeksPerSeason) + 1]

\* The matchups a league plays, as <<nickname of team 1, nickname of team 2>>.
PipelinePairs == {<<"Ryan", "cooper">>, <<"nick", "Ryan">>}

AliasPairs == {<<"--hidden--", "cooper">>, <<"cooper", "Ryan">>}

Outcomes == {"team1", "team2", "tie"}

\* The results a matchup of the pair can have: nick and Ryan never tie.
OutcomesOf(pair) ==
    IF pair = <<"nick", "Ryan">> THEN {"team1", "team2"} ELSE Outcomes

\* The flags the API sets on a matchup of the given week.
KindsOfWeek(week) ==
    IF week < PlayoffStartWeek THEN {"regular"}
    ELSE IF week = PlayoffStartWeek THEN {"playoff", "consolation"}
    ELSE {"playoff", "third", "consolation"}

TeamKey(name) == "t." \o name

\* A completed matchup as the API returns it.
MatchupWithPoints(week, pair, outcome, kind, win_points, loss_points, tie_points) ==
    LET Points(side) == IF outcome = "tie" THEN tie_points
                        ELSE IF outcome = side THEN win_points ELSE loss_points
    IN  [week |-> week,
         teams |-> <<[team_key |-> TeamKey(pair[1]), managers |-> <<pair[1]>>,
                      points |-> Points("team1")],
                     [team_key |-> TeamKey(pair[2]), managers |-> <<pair[2]>>,
                      points |-> Points("team2")]>>,
         is_tied |-> outcome = "tie",
         winner_team_key |-> IF outcome = "team1" THEN TeamKey(pair[1])
                             ELSE IF outcome = "team2" THEN TeamKey(pair[2])
                             ELSE None,
         is_playoffs |-> kind # "regular",
         is_consolation |-> kind = "consolation",
         is_third_place |-> kind = "third"]

Matchup(week, pair, outcome, kind) ==
    MatchupWithPoints(week, pair, outcome, kind, 2, 1, 1)

(***************************************************************************)
(* The bracket league: six playoff teams, of which the two with the best   *)
(* regular-season records have a bye in the quarter-final week.  The API   *)
(* seeds the teams by wins, then points for; a tied game is a win for      *)
(* neither team.                                                           *)
(***************************************************************************)

\* The number of completed weeks the bracket league reaches.
MaxBracketWeeks == 4

BracketPlayoffTeams == 6

BracketSettings ==
    [playoff_start_week |-> PlayoffStartWeek, num_playoff_teams |-> BracketPlayoffTeams]

\* The matchups of every regular-season week.
BracketOpening ==
    <<<<"Dylan", "Ryan">>, <<"Torin", "cooper">>, <<"nick", "--hidden--">>>>

\* The results the i-th matchup of a regular-season week can have.
OpeningOutcomes(i) ==
    IF i = 1 THEN Outcomes ELSE IF i = 2 THEN {"team1", "team2"} ELSE {"team1"}

\* The i-th matchup of a regular-season week: the scores of the three
\* matchups differ.
OpeningMatchup(week, i, outcome) ==
    MatchupWithPoints(week, BracketOpening[i], outcome, "regular", 20 - 2 * i, 10 + i, 19)

BracketCalendar(i) ==
    [season |-> FirstSeason + ((i - 1) \div TotalWeeks(BracketSettings)),
     week |-> ((i - 1) % TotalWeeks(BracketSettings)) + 1]

ApiWinner(m) ==
    IF m.winner_team_key = m.teams[1].team_key THEN m.teams[1].managers[1]
    ELSE m.teams[2].managers[1]

ApiLoser(m) ==
    IF m.winner_team_key = m.teams[1].team_key THEN m.teams[2].managers[1]
    ELSE m.teams[1].managers[1]

RECURSIVE ApiPointsFor(_, _)
ApiPointsFor(matchups, name) ==
    IF matchups = <<>> THEN 0
    ELSE LET m == Head(matchups)
         IN  (IF m.teams[1].managers[1] = name THEN m.teams[1].points ELSE 0)
                 + (IF m.teams[2].managers[1] = name THEN m.teams[2].points ELSE 0)
                 + ApiPointsFor(Tail(matchups), name)

ApiWins(matchups, name) ==
    Cardinality({i \in DOMAIN matchups : matchups[i].winner_team_key = TeamKey(name)})

\* The seeds of the league after its regular season, best first.
ApiSeeds(reg_matchups) ==
    LET managers == SortedStrings(UNION {{reg_matchups[i].teams[1].managers[1],
                                          reg_matchups[i].teams[2].managers[1]} :
                                         i \in DOMAIN reg_matchups})
        keyed == [i \in DOMAIN managers |->
                     [name |-> managers[i],
                      wins |-> ApiWins(reg_matchups, managers[i]),
                      points_for |-> ApiPointsFor(reg_matchups, managers[i])]]
        Better(a, b) ==
            \/ a.wins > b.wins
            \/ a.wins = b.wins /\ a.points_for > b.points_for
        sorted == StableSort(keyed, Better)
    IN  [i \in DOMAIN sorted |-> sorted[i].name]

\* The lists of matchups the bracket league can complete in its next week,
\* given the weeks it has completed.
BracketSlates(weeks) ==
    LET date == BracketCalendar(Len(weeks) + 1)
        week == date.week
        psw == BracketSettings.playoff_start_week
        InSeason(w) == w.season = date.season
        played == SelectSeq(weeks, InSeason)
        seeds == ApiSeeds(RegularSeasonMatchups(played, psw))
        qf == played[psw].matchups
        sf == played[psw + 1].matchups
        Decided == {"team1", "team2"}
    IN  IF week < psw
        THEN {<<OpeningMatchup(week, 1, o1), OpeningMatchup(week, 2, o2),
                OpeningMatchup(week, 3, o3)>> :
              o1 \in OpeningOutcomes(1), o2 \in OpeningOutcomes(2),
              o3 \in OpeningOutcomes(3)}
        ELSE IF week = psw
        THEN {<<Matchup(week, <<seeds[3], seeds[6]>>, o1, "playoff"),
                Matchup(week, <<seeds[4], seeds[5]>>, o2, "playoff")>> :
              o1 \in Decided, o2 \in Decided}
        ELSE IF week = psw + 1
        THEN {<<Matchup(week, <<seeds[1], ApiWinner(qf[2])>>, o1, "playoff"),
                Matchup(week, <<seeds[2], ApiWinner(qf[1])>>, o2, "playoff"),
                Matchup(week, <<ApiLoser(qf[1]), ApiLoser(qf[2])>>, "team1",
                        "consolation")>> :
              o1 \in Decided, o2 \in Decided}
        ELSE {<<Matchup(week, <<ApiWinner(sf[1]), ApiWinner(sf[2])>>, o1, "playoff"),
                Matchup(week, <<ApiLoser(sf[1]), ApiLoser(sf[2])>>, o2, "third"),
                Matchup(week, <<ApiLoser(qf[1]), ApiLoser(qf[2])>>, "team2",
                        "consolation")>> :
              o1 \in Decided, o2 \in Decided}

(***************************************************************************)
(* State                                                                   *)
(***************************************************************************)

VARIABLES
    league,          \* the matchups the league plays (fixed by Init)
    api,             \* the completed weeks the API returns, oldest first
    files,           \* the data files that exist
    raw_data,        \* cache/raw_api_cache.pkl
    historical_data, \* data/historical_data.json: the ledger
    h2h_records,     \* data/h2h_records.json: the H2H store
    h2h_weeks,       \* the weeks applied to the store since its rebuild
    merged,          \* the data in the memory of the dashboard that ran last
                     \* on the stored files
    merge_error,     \* the exception that run raised, or "none"
    merge_by,        \* the dashboard that ran, or "none" when none has
                     \* run since the store was written
    build_error,     \* the exception the last run of build_history.py
                     \* raised, or "none"
    report_error,    \* the exception the last run of run_report_process
                     \* raised, or "none"
    last_processed_week  \* data/state.json

vars == <<league, api, files, raw_data, historical_data, h2h_records, h2h_weeks,
          merged, merge_error, merge_by, build_error, report_error, last_processed_week>>

(***************************************************************************)
(* tools/build_raw_data_cache.py                                           *)
(***************************************************************************)

Seasons(weeks) == {weeks[i].season : i \in DOMAIN weeks}

RECURSIVE SeasonList(_)
\* The seasons of leagues.json that have a completed week, oldest first.
SeasonList(S) ==
    IF S = {} THEN <<>>
    ELSE LET first == CHOOSE x \in S : \A y \in S : x <= y
         IN  <<first>> \o SeasonList(S \ {first})

\* Lines 72-110: the snapshot of every completed week of every season.
cache_all_raw_data(weeks) ==
    LET seasons == SeasonList(Seasons(weeks))
        SettingsOf(season) ==
            (CHOOSE w \in Range(weeks) : w.season = season).settings
        WeeksOf(season) ==
            LET InSeason(w) == w.season = season /\ w.week <= TotalWeeks(SettingsOf(season))
                AsEntry(w) == [week |-> w.week, matchups |-> w.matchups]
                ws == SelectSeq(weeks, InSeason)
            IN  [i \in DOMAIN ws |-> AsEntry(ws[i])]
    IN  [i \in DOMAIN seasons |->
            [season |-> seasons[i], settings |-> SettingsOf(seasons[i]),
             weeks |-> WeeksOf(seasons[i])]]

\* The nicknames of the first-listed managers and co-managers of a snapshot.
RawManagers(raw) ==
    UNION {UNION {UNION {Range(raw[s].weeks[w].matchups[m].teams[1].managers)
                           \cup Range(raw[s].weeks[w].matchups[m].teams[2].managers) :
                         m \in DOMAIN raw[s].weeks[w].matchups} :
                  w \in DOMAIN raw[s].weeks} :
           s \in DOMAIN raw}

RECURSIVE WeekCount(_)
\* The number of weeks in a snapshot.
WeekCount(raw) ==
    IF raw = <<>> THEN 0 ELSE Len(Head(raw).weeks) + WeekCount(Tail(raw))

(***************************************************************************)
(* Actions                                                                 *)
(***************************************************************************)

Init ==
    /\ league = PipelinePairs
    /\ api = <<>>
    /\ files = {}
    /\ raw_data = <<>>
    /\ historical_data = <<>>
    /\ h2h_records = <<>>
    /\ h2h_weeks = <<>>
    /\ merged = <<>>
    /\ merge_error = "none"
    /\ merge_by = "none"
    /\ build_error = "none"
    /\ report_error = "none"
    /\ last_processed_week = 0

\* The league completes its next week: one matchup becomes final.
CompleteWeek ==
    /\ Len(api) < MaxWeeks
    /\ LET date == Calendar(Len(api) + 1)
       IN  \E pair \in league, kind \in KindsOfWeek(date.week) :
             \E outcome \in OutcomesOf(pair) :
               api' = Append(api, [season |-> date.season, week |-> date.week,
                                   settings |-> LeagueSettings,
                                   matchups |-> <<Matchup(date.week, pair, outcome, kind)>>])
    /\ UNCHANGED <<last_processed_week, build_error, report_error>>
    /\ UNCHANGED <<league, files, raw_data, historical_data, h2h_records, h2h_weeks,
                   merged, merge_error, merge_by>>

\* Lines 73-74: the managers whose place in the iteration order of the set
\* can change top_seeds_with_byes of the season: those with fewer than two
\* managers of a better record above them who share their record with
\* another manager.  sorted() is stable, so the order matters among managers
\* of equal records only, and a manager with two better records above takes
\* no bye.
TiedForByes(season_data) ==
    LET reg_matchups == RegularSeasonMatchups(season_data.weeks,
                            season_data.settings.playoff_start_week)
        managers == RegularSeasonManagers(reg_matchups)
        record == [name \in managers |-> RegSeasonRecord(reg_matchups, name)]
        Better(a, b) ==
            \/ record[a].wins > record[b].wins
            \/ record[a].wins = record[b].wins /\ record[a].pf > record[b].pf
        Equal(a, b) == ~Better(a, b) /\ ~Better(b, a)
    IN  IF season_data.settings.num_playoff_teams < 6 THEN {}
        ELSE {name \in managers :
                 /\ Cardinality({other \in managers : Better(other, name)}) < 2
                 /\ \E other \in managers \ {name} : Equal(name, other)}

\* The iteration orders of the set managers of one season, one for every
\* value that top_seeds_with_byes takes: the records of the season depend
\* on the order through top_seeds_with_byes only, and top_seeds_with_byes
\* through the order of the managers tied for a bye, so every order of
\* these managers is drawn and the others follow by name.  A skipped season
\* builds no set.
SeasonSeedingOrders(season_data) ==
    IF SeasonSkipped(season_data) THEN {<<>>}
    ELSE LET tied == TiedForByes(season_data)
             others == SortedStrings(RawManagers(<<season_data>>) \ tied)
             all == {order \o others : order \in SetOrders(tied)}
         IN  {CHOOSE order \in all : TopSeedsWithByes(season_data, order) = seeding :
              seeding \in {TopSeedsWithByes(season_data, order) : order \in all}}

RECURSIVE SeedingOrders(_)
\* The iteration orders of one run over the snapshot: the set managers of
\* line 60 is built inside the loop of line 48, so each season draws its
\* own order, whatever the orders of the seasons before it.
SeedingOrders(raw) ==
    IF raw = <<>> THEN {<<>>}
    ELSE {Append(before, order) :
              before \in SeedingOrders(Front(raw)),
              order \in SeasonSeedingOrders(Last(raw))}

\* tools/init_history.py, run_full_historical_build: cache_all_raw_data,
\* build_historical_data_from_cache and initialize_h2h_records.  The set of
\* managers of build_history.py and the set manager_names of
\* init_h2h_records.py are iterated in orders that depend on the string
\* hashes of the process and on the insertions into each set.
RunFullHistoricalBuild ==
    LET raw == cache_all_raw_data(api)
    IN  \E seeding \in SeedingOrders(raw) :
            LET ledger == build_historical_data_from_cache(raw, seeding)
            IN  \E order \in SetOrders(ManagerNames(ledger)) :
                    /\ raw_data' = raw
                    /\ historical_data' = ledger
                    /\ h2h_records' = initialize_h2h_records(ledger, order)
                    /\ h2h_weeks' = <<>>
                    /\ files' = files \cup {"raw_api_cache.pkl", "historical_data.json",
                                            "h2h_records.json"}
                    /\ merged' = <<>>
                    /\ merge_error' = "none"
                    /\ merge_by' = "none"
                    /\ UNCHANGED <<last_processed_week, build_error, report_error>>
                    /\ UNCHANGED <<league, api>>

\* The last week whose results the store holds.
LastReflectedWeek ==
    IF h2h_weeks = <<>> THEN WeekCount(raw_data) ELSE Last(h2h_weeks)

\* tools/generate_preview.py, run_preview_process, lines 223-233: the results
\* of the last completed week are applied to the stored H2H records, and
\* lines 236-244: prepare_preview_data writes preview_data.json.  The
\* preview runs at most once for a completed week.
RunPreviewProcess ==
    /\ "h2h_records.json" \in files
    /\ api # <<>>
    /\ Len(api) > LastReflectedWeek
    /\ h2h_records' = update_h2h_records(Last(api).matchups, h2h_records,
                                         Last(api).season, Last(api).settings)
    /\ h2h_weeks' = Append(h2h_weeks, Len(api))
    /\ files' = files \cup {"preview_data.json"}
    /\ merged' = <<>>
    /\ merge_error' = "none"
    /\ merge_by' = "none"
    /\ UNCHANGED <<last_processed_week, build_error, report_error>>
    /\ UNCHANGED <<league, api, raw_data, historical_data>>

\* A dashboard loads the stored H2H records and merges the identities.
RunDashboard(dashboard) ==
    /\ "h2h_records.json" \in files
    /\ LET result == merge_manager_data(dashboard, h2h_records, MergeSource, MergeTarget)
       IN  /\ merged' = result.store
           /\ merge_error' = result.error
    /\ merge_by' = dashboard
    /\ UNCHANGED <<last_processed_week, build_error, report_error>>
    /\ UNCHANGED <<league, api, files, raw_data, historical_data, h2h_records, h2h_weeks>>

DashboardH2h == RunDashboard("dashboard_h2h")

DashboardStreaks == RunDashboard("dashboard_streaks")

Next ==
    \/ CompleteWeek
    \/ RunFullHistoricalBuild
    \/ RunPreviewProcess

Spec == Init /\ [][Next]_vars

\* The bracket league completes its next week.
CompleteBracketWeek ==
    /\ Len(api) < MaxBracketWeeks
    /\ LET date == BracketCalendar(Len(api) + 1)
       IN  \E matchups \in BracketSlates(api) :
               api' = Append(api, [season |-> date.season, week |-> date.week,
                                   settings |-> BracketSettings,
                                   matchups |-> matchups])
    /\ UNCHANGED <<last_processed_week, build_error, report_error>>
    /\ UNCHANGED <<league, files, raw_data, historical_data, h2h_records, h2h_weeks,
                   merged, merge_error, merge_by>>

\* tools/build_raw_data_cache.py run as a script.
CacheAllRawData ==
    /\ raw_data' = cache_all_raw_data(api)
    /\ files' = files \cup {"raw_api_cache.pkl"}
    /\ UNCHANGED <<last_processed_week, build_error, report_error>>
    /\ UNCHANGED <<league, api, historical_data, h2h_records, h2h_weeks,
                   merged, merge_error, merge_by>>

\* tools/build_history.py run as a script: lines 36-44 and 129-132.
BuildHistoricalData ==
    /\ "raw_api_cache.pkl" \in files
    /\ IF RaisesIndexError(raw_data)
       THEN /\ build_error' = "IndexError"
            /\ UNCHANGED <<historical_data, files>>
       ELSE /\ \E orders \in SeedingOrders(raw_data) :
                   historical_data' = build_historical_data_from_cache(raw_data, orders)
            /\ files' = files \cup {"historical_data.json"}
            /\ build_error' = "none"
    /\ UNCHANGED <<league, api, raw_data, h2h_records, h2h_weeks,
                   merged, merge_error, merge_by, last_processed_week, report_error>>

\* The league of the bracket: six managers, six playoff teams.
InitBracket ==
    /\ league = Range(BracketOpening)
    /\ api = <<>>
    /\ files = {}
    /\ raw_data = <<>>
    /\ historical_data = <<>>
    /\ h2h_records = <<>>
    /\ h2h_weeks = <<>>
    /\ merged = <<>>
    /\ merge_error = "none"
    /\ merge_by = "none"
    /\ build_error = "none"
    /\ report_error = "none"
    /\ last_processed_week = 0

NextBracket ==
    \/ CompleteBracketWeek
    \/ CacheAllRawData
    \/ BuildHistoricalData

SpecBracket == InitBracket /\ [][NextBracket]_vars

\* The league of the dashboards: a hidden manager whose records are merged
\* into Ryan's.
InitMerge ==
    /\ league = AliasPairs
    /\ api = <<>>
    /\ files = {}
    /\ raw_data = <<>>
    /\ historical_data = <<>>
    /\ h2h_records = <<>>
    /\ h2h_weeks = <<>>
    /\ merged = <<>>
    /\ merge_error = "none"
    /\ merge_by = "none"
    /\ build_error = "none"
    /\ report_error = "none"
    /\ last_processed_week = 0

NextMerge ==
    \/ CompleteWeek
    \/ RunFullHistoricalBuild
    \/ DashboardH2h
    \/ DashboardStreaks

SpecMerge == InitMerge /\ [][NextMerge]_vars

(***************************************************************************)
(* Properties of the head-to-head aggregator                               *)
(***************************************************************************)

StoreExists == "h2h_records.json" \in files

\* The store is the one the full rebuild wrote from historical_data.
FreshlyRebuilt == StoreExists /\ h2h_weeks = <<>>

\* Every week the league completed after the rebuild was applied once, in
\* order, by the weekly update.
ReplayedWeekByWeek ==
    /\ StoreExists
    /\ WeekCount(raw_data) + Len(h2h_weeks) = Len(api)
    /\ \A i \in DOMAIN h2h_weeks : h2h_weeks[i] = WeekCount(raw_data) + i

\* The ledger of the whole history the league has played.
FullLedger ==
    LET raw == cache_all_raw_data(api)
    IN  build_historical_data_from_cache(raw,
            CHOOSE orders \in SeedingOrders(raw) : TRUE)

Records(store) == {store[i].value : i \in DOMAIN store}

\* The ledger games between exactly the two managers of a record.
LedgerGamesOf(r, ledger) ==
    {j \in DOMAIN ledger :
        {ledger[j].team1_manager_name, ledger[j].team2_manager_name}
            = {r.manager1_name, r.manager2_name}}

\* C1: a record rebuilt from a prefix of the history and then updated week
\* by week with the rest of the history equals, in every field, the record
\* rebuilt from the whole history.
C1_ReplayEquivalence ==
    ReplayedWeekByWeek =>
        \A r \in Records(h2h_records) :
            r = calculate_h2h_for_pair(r.manager1_name, r.manager2_name, FullLedger)

\* C2: after a full rebuild, reg_wins_1 + reg_wins_2 of every record is the
\* number of ledger games between exactly that pair that are regular and
\* have a winner.
C2_RegularWinsCountLedgerGames ==
    FreshlyRebuilt =>
        \A r \in Records(h2h_records) :
            r.reg_wins_1 + r.reg_wins_2 =
                Cardinality({j \in LedgerGamesOf(r, historical_data) :
                                /\ historical_data[j].game_type = "regular"
                                /\ historical_data[j].winner_manager_name # None})

\* A rebuilt record that counts a regular win while the ledger also holds a
\* game of the pair that is not counted and a game of another pair.
C2_Witness ==
    /\ FreshlyRebuilt
    /\ \E r \in Records(h2h_records) :
           /\ r.reg_wins_1 + r.reg_wins_2 >= 1
           /\ r.reg_wins_1 + r.reg_wins_2
                  < Cardinality(LedgerGamesOf(r, historical_data))
           /\ Cardinality(LedgerGamesOf(r, historical_data)) < Len(historical_data)

\* The regular-season matchups of a week that ended tied.
TiedRegularMatchups(week) ==
    {i \in DOMAIN week.matchups :
        /\ week.matchups[i].is_tied
        /\ ~week.matchups[i].is_playoffs
        /\ ~week.matchups[i].is_consolation}

MatchupKey(m) == PairKey(m.teams[1].managers[1], m.teams[2].managers[1])

SameTallies(r1, r2) ==
    /\ r1.reg_wins_1 = r2.reg_wins_1
    /\ r1.reg_wins_2 = r2.reg_wins_2
    /\ r1.playoff_wins_1 = r2.playoff_wins_1
    /\ r1.playoff_wins_2 = r2.playoff_wins_2
    /\ r1.playoff_history = r2.playoff_history
    /\ r1.regular_history = r2.regular_history

\* C5, the weekly update: a step of the update that processes a tied
\* regular-season game of a pair whose record holds an active streak.
TieInUpdateStep ==
    (h2h_weeks' = Append(h2h_weeks, Len(api))) =>
        \A i \in TiedRegularMatchups(Last(api)) :
            LET key == MatchupKey(Last(api).matchups[i])
            IN  (DictHas(h2h_records, key) /\ DictGet(h2h_records, key).streak_len > 0) =>
                    /\ SameTallies(DictGet(h2h_records', key), DictGet(h2h_records, key))
                    /\ DictGet(h2h_records', key).streak_holder = None
                    /\ DictGet(h2h_records', key).streak_len = 0

\* C5, the full rebuild: a rebuild whose ledger ends with a tied
\* regular-season game of the pair.
TieInRebuildStep ==
    (h2h_weeks' = <<>> /\ historical_data' # <<>> /\ api # <<>>) =>
        \A i \in TiedRegularMatchups(Last(api)) :
            LET key == MatchupKey(Last(api).matchups[i])
                r == DictGet(h2h_records', key)
                before == calculate_h2h_for_pair(r.manager1_name, r.manager2_name,
                                                 Front(historical_data'))
            IN  /\ r.streak_holder = None
                /\ r.streak_len = 0
                /\ before # NoRecord => SameTallies(r, before)

\* C5: a tied regular-season game leaves the win counters and the history
\* lists of the pair unchanged and sets its current streak to (null, 0), in
\* the full rebuild and in the weekly update of a record with an active
\* streak.
C5_TieHandling == [][TieInRebuildStep /\ TieInUpdateStep]_vars

\* The games of a record's pair that are not consolation games, in
\* chronological order.
CountedGames(r, ledger) ==
    LET NotConsolation(g) == g.game_type # "consolation"
    IN  SelectSeq(RelevantGames(r.manager1_name, r.manager2_name, ledger), NotConsolation)

\* The winner and the length of the maximal run of games won by one manager
\* at the end of a chronological list of games.
RunAtEnd(g) ==
    IF g = <<>> \/ Last(g).winner_manager_name = None
    THEN [streak_holder |-> None, streak_len |-> 0]
    ELSE LET n == Len(g)
             w == Last(g).winner_manager_name
         IN  [streak_holder |-> w,
              streak_len |-> CHOOSE k \in 1..n :
                  /\ \A j \in (n - k + 1)..n : g[j].winner_manager_name = w
                  /\ k = n \/ g[n - k].winner_manager_name # w]

\* C6: after a full rebuild the current streak of a pair is the winner and
\* the length of the maximal run of consecutive games won by one manager
\* that ends at the pair's last game, consolation games skipped, a tie
\* giving (null, 0).
C6_CurrentStreakAfterRebuild ==
    FreshlyRebuilt =>
        \A r \in Records(h2h_records) :
            LET run == RunAtEnd(CountedGames(r, historical_data))
            IN  r.streak_holder = run.streak_holder /\ r.streak_len = run.streak_len

\* The runs of consecutive wins by one manager in a list of games, as
\* <<first, last>> index pairs.
WinRuns(g) ==
    {run \in (DOMAIN g) \X (DOMAIN g) :
        /\ run[1] <= run[2]
        /\ g[run[1]].winner_manager_name # None
        /\ \A k \in run[1]..run[2] :
               g[k].winner_manager_name = g[run[1]].winner_manager_name}

LongestRuns(g) ==
    {run \in WinRuns(g) :
        \A other \in WinRuns(g) : other[2] - other[1] <= run[2] - run[1]}

\* C7: after a full rebuild the longest streak of a record is the longest
\* run of consecutive wins by one manager in the pair's chronological
\* history, with its holder and the (season, week) of its first and last
\* game; of two runs of the same maximal length the earlier one is recorded.
C7_LongestStreakIsEarliestLongestRun ==
    FreshlyRebuilt =>
        \A r \in Records(h2h_records) :
            LET g == RelevantGames(r.manager1_name, r.manager2_name, historical_data)
            IN  IF WinRuns(g) = {}
                THEN /\ r.longest_streak_len = 0
                     /\ r.longest_streak_holder = None
                     /\ r.longest_streak_start_game = NoGame
                     /\ r.longest_streak_end_game = NoGame
                ELSE LET run == CHOOSE x \in LongestRuns(g) :
                                    \A y \in LongestRuns(g) : x[1] <= y[1]
                     IN  /\ r.longest_streak_len = run[2] - run[1] + 1
                         /\ r.longest_streak_holder = g[run[1]].winner_manager_name
                         /\ r.longest_streak_start_game = GameDate(g[run[1]])
                         /\ r.longest_streak_end_game = GameDate(g[run[2]])

\* A rebuilt record whose history has two runs of the maximal length, so
\* that the recorded streak ends before the pair's last game.
C7_Witness ==
    /\ FreshlyRebuilt
    /\ \E r \in Records(h2h_records) :
           LET g == RelevantGames(r.manager1_name, r.manager2_name, historical_data)
           IN  /\ Cardinality(LongestRuns(g)) >= 2
               /\ r.longest_streak_len >= 1
               /\ r.longest_streak_end_game # r.last_game

\* C8: consolation games influence no field of a record: the record the
\* full rebuild builds for a pair with a game that is not a consolation game
\* equals the record built from the ledger without the pair's consolation
\* games.
C8_ConsolationInfluencesNothing ==
    FreshlyRebuilt =>
        \A r \in Records(h2h_records) :
            LET OfPairAndConsolation(g) ==
                    /\ {g.team1_manager_name, g.team2_manager_name}
                           = {r.manager1_name, r.manager2_name}
                    /\ g.game_type = "consolation"
                Kept(g) == ~OfPairAndConsolation(g)
            IN  CountedGames(r, historical_data) # <<>> =>
                    r = calculate_h2h_for_pair(r.manager1_name, r.manager2_name,
                                               SelectSeq(historical_data, Kept))

(***************************************************************************)
(* Properties of the game-type classifier                                  *)
(***************************************************************************)

LedgerExists == "historical_data.json" \in files

\* The settings of a season the league has played.
SettingsOfSeason(season) ==
    (CHOOSE w \in Range(api) : w.season = season).settings

\* The ledger games of a season with one of the given game types.
LedgerGames(season, types) ==
    {i \in DOMAIN historical_data :
        /\ historical_data[i].season = season
        /\ historical_data[i].game_type \in types}

ManagersOfGames(games) ==
    UNION {{historical_data[i].team1_manager_name,
            historical_data[i].team2_manager_name} : i \in games}

WinnersOfGames(games) == {historical_data[i].winner_manager_name : i \in games}

RECURSIVE LedgerPointsFor(_, _, _)
\* The points a manager scored in the regular season.
LedgerPointsFor(ledger, season, name) ==
    IF ledger = <<>> THEN 0
    ELSE LET g == Head(ledger)
             counted == g.season = season /\ g.game_type = "regular"
         IN  (IF counted /\ g.team1_manager_name = name THEN g.team1_score ELSE 0)
                 + (IF counted /\ g.team2_manager_name = name THEN g.team2_score ELSE 0)
                 + LedgerPointsFor(Tail(ledger), season, name)

\* The pairs of managers that lead the regular-season standings of a
\* season: no other manager has more wins, or as many wins and more points.
TopTwoSeeds(season) ==
    LET regular == LedgerGames(season, {"regular"})
        managers == ManagersOfGames(regular)
        wins == [name \in managers |->
                    Cardinality({i \in regular :
                        historical_data[i].winner_manager_name = name})]
        points_for == [name \in managers |->
                          LedgerPointsFor(historical_data, season, name)]
        Better(a, b) ==
            \/ wins[a] > wins[b]
            \/ wins[a] = wins[b] /\ points_for[a] > points_for[b]
    IN  {seeds \in SUBSET managers :
            /\ Cardinality(seeds) = 2
            /\ \A a \in seeds, b \in managers \ seeds : ~Better(b, a)}

\* The seasons of the ledger with six or more playoff teams whose
\* semi-final week is in the ledger.
SeasonsWithSemiFinalWeek ==
    {season \in {historical_data[i].season : i \in DOMAIN historical_data} :
        /\ SettingsOfSeason(season).num_playoff_teams >= 6
        /\ \E i \in DOMAIN historical_data :
               /\ historical_data[i].season = season
               /\ historical_data[i].week = SettingsOfSeason(season).playoff_start_week + 1}

\* C3: in every season with six or more playoff teams the managers of the
\* matchups labelled SF are exactly the winners of the quarter-finals and
\* the two top seeds of the regular season, and every other matchup of the
\* semi-final week is labelled consolation.
C3_BracketConsistency ==
    LedgerExists =>
        \A season \in SeasonsWithSemiFinalWeek :
            /\ \E seeds \in TopTwoSeeds(season) :
                   ManagersOfGames(LedgerGames(season, {"SF"}))
                       = WinnersOfGames(LedgerGames(season, {"QF"})) \cup seeds
            /\ \A i \in LedgerGames(season, GameTypes) :
                   historical_data[i].week
                           = SettingsOfSeason(season).playoff_start_week + 1
                       => historical_data[i].game_type \in {"SF", "consolation"}

(***************************************************************************)
(* Properties of the identity merge                                        *)
(***************************************************************************)

\* A dashboard has merged the stored H2H records.
MergeRan == merge_by # "none"

Histories(r) ==
    (IF "playoff_history" \in DOMAIN r THEN r.playoff_history ELSE <<>>)
        \o (IF "regular_history" \in DOMAIN r THEN r.regular_history ELSE <<>>)

\* A key, a manager, a streak holder or a history entry of the store names
\* the identity.
Mentions(store, name) ==
    \E i \in DOMAIN store :
        LET r == store[i].value
        IN  \/ StrContains(name, store[i].key)
            \/ r.manager1_name = name
            \/ r.manager2_name = name
            \/ r.streak_holder = name
            \/ "longest_streak_holder" \in DOMAIN r /\ r.longest_streak_holder = name
            \/ \E j \in DOMAIN Histories(r) : Histories(r)[j].winner = name

\* C4: the identity merge is idempotent: it returns a store, a second
\* application to that store returns the same store, and after the first
\* application no key and no record of the store names the alias.
C4_MergeIdempotent ==
    MergeRan =>
        /\ merge_error = "none"
        /\ merge_manager_data(merge_by, merged, MergeSource, MergeTarget)
               = [store |-> merged, error |-> "none"]
        /\ ~Mentions(merged, MergeSource)

\* The opponents for whom the store holds a record against the alias and a
\* record against the canonical identity.
SharedOpponents ==
    {opponent \in ManagerNames(historical_data) \ {MergeSource, MergeTarget} :
        /\ DictHas(h2h_records, PairKey(MergeSource, opponent))
        /\ DictHas(h2h_records, PairKey(MergeTarget, opponent))}

\* The wins of a manager in a record: kind is "reg_wins" or "playoff_wins".
WinsOf(r, name, kind) ==
    IF r.manager1_name = name THEN r[kind \o "_1"] ELSE r[kind \o "_2"]

\* C9: when records exist for (alias, opponent) and (canonical, opponent),
\* the four win counters of the merged canonical record are the field-wise
\* sums of the counters of the two records.
C9_MergedCountersAreSums ==
    MergeRan =>
        \A opponent \in SharedOpponents :
            LET a == DictGet(h2h_records, PairKey(MergeSource, opponent))
                c == DictGet(h2h_records, PairKey(MergeTarget, opponent))
            IN  /\ DictHas(merged, PairKey(MergeTarget, opponent))
                /\ LET m == DictGet(merged, PairKey(MergeTarget, opponent))
                   IN  \A kind \in {"reg_wins", "playoff_wins"} :
                           /\ WinsOf(m, MergeTarget, kind) =
                                  WinsOf(a, MergeSource, kind) + WinsOf(c, MergeTarget, kind)
                           /\ WinsOf(m, opponent, kind) =
                                  WinsOf(a, opponent, kind) + WinsOf(c, opponent, kind)

\* The ledger with the alias renamed to the canonical identity.
RenamedLedger ==
    LET Renamed(name) == IF name = MergeSource THEN MergeTarget ELSE name
    IN  [i \in DOMAIN historical_data |->
            [historical_data[i] EXCEPT
                !.team1_manager_name = Renamed(@),
                !.team2_manager_name = Renamed(@),
                !.winner_manager_name = Renamed(@)]]

\* C10: when records exist for (alias, opponent) and (canonical, opponent),
\* the current streak and the longest streak of the merged canonical record
\* are those of a replay from scratch of the games of both records, sorted
\* by (season, week), with the alias renamed to the canonical identity.
C10_MergedStreaksAreReplayed ==
    MergeRan =>
        \A opponent \in SharedOpponents :
            LET replayed == calculate_h2h_for_pair(MergeTarget, opponent, RenamedLedger)
            IN  /\ DictHas(merged, PairKey(MergeTarget, opponent))
                /\ LET m == DictGet(merged, PairKey(MergeTarget, opponent))
                   IN  /\ m.streak_holder = replayed.streak_holder
                       /\ m.streak_len = replayed.streak_len
                       /\ m.longest_streak_holder = replayed.longest_streak_holder
                       /\ m.longest_streak_len = replayed.longest_streak_len
                       /\ m.longest_streak_start_game = replayed.longest_streak_start_game
                       /\ m.longest_streak_end_game = replayed.longest_streak_end_game

\* The opponents for whom the store holds a record against the alias and
\* none against the canonical identity.
AliasOnlyOpponents ==
    {opponent \in ManagerNames(historical_data) \ {MergeSource, MergeTarget} :
        /\ DictHas(h2h_records, PairKey(MergeSource, opponent))
        /\ ~DictHas(h2h_records, PairKey(MergeTarget, opponent))}

\* The history entries with the alias renamed to the canonical identity.
RenamedHistory(history) ==
    [i \in DOMAIN history |->
        [history[i] EXCEPT !.winner = IF @ = MergeSource THEN MergeTarget ELSE @]]

\* C11: when the store has a record for (alias, opponent) and none for
\* (canonical, opponent), the merged store has a record under the
\* canonical-opponent key in which the canonical identity holds the win
\* counts, history entries and streaks the alias held, the opponent's counts
\* are unchanged, and the alias key and alias name no longer occur.
C11_AliasRecordIsRekeyed ==
    MergeRan =>
        \A opponent \in AliasOnlyOpponents :
            LET a == DictGet(h2h_records, PairKey(MergeSource, opponent))
                Renamed(name) == IF name = MergeSource THEN MergeTarget ELSE name
            IN  /\ DictHas(merged, PairKey(MergeTarget, opponent))
                /\ LET m == DictGet(merged, PairKey(MergeTarget, opponent))
                   IN  /\ \A kind \in {"reg_wins", "playoff_wins"} :
                              /\ WinsOf(m, MergeTarget, kind) = WinsOf(a, MergeSource, kind)
                              /\ WinsOf(m, opponent, kind) = WinsOf(a, opponent, kind)
                       /\ Histories(m) = RenamedHistory(Histories(a))
                       /\ m.streak_holder = Renamed(a.streak_holder)
                       /\ m.streak_len = a.streak_len
                       /\ "longest_streak_holder" \in DOMAIN m
                       /\ m.longest_streak_holder = Renamed(a.longest_streak_holder)
                       /\ m.longest_streak_len = a.longest_streak_len
                /\ ~Mentions(merged, MergeSource)

(***************************************************************************)
(* The playoff league: four managers in either bracket shape.  The API     *)
(* sets the playoff and consolation flags of a matchup freely, and a       *)
(* matchup of the first two weeks can end in a tie.                        *)
(***************************************************************************)

\* The league settings of the two bracket shapes.
PlayoffShapes ==
    {[playoff_start_week |-> PlayoffStartWeek, num_playoff_teams |-> n] :
     n \in {NumPlayoffTeams, BracketPlayoffTeams}}

\* The matchups of every regular-season week.
PlayoffOpening == <<<<"Ryan", "cooper">>, <<"nick", "Torin">>>>

\* The two pairings of a playoff week.
PlayoffPairings ==
    {<<<<"Torin", "Ryan">>, <<"cooper", "nick">>>>,
     <<<<"Torin", "nick">>, <<"cooper", "Ryan">>>>}

\* The (is_playoffs, is_consolation) flags of the first matchup of a
\* playoff week.
PlayoffFlags ==
    {[is_playoffs |-> TRUE, is_consolation |-> FALSE],
     [is_playoffs |-> TRUE, is_consolation |-> TRUE],
     [is_playoffs |-> FALSE, is_consolation |-> TRUE]}

\* A completed matchup with the given flags.
FlaggedMatchup(week, pair, outcome, flags, win_points) ==
    [MatchupWithPoints(week, pair, outcome, "regular", win_points, 1, win_points)
        EXCEPT !.is_playoffs = flags.is_playoffs,
               !.is_consolation = flags.is_consolation]

\* The lists of matchups the playoff league can complete in the given week.
PlayoffSlates(week) ==
    LET FirstOutcomes == IF week = 1 \/ week = PlayoffStartWeek
                         THEN {"team1", "tie"} ELSE {"team1"}
        Unflagged == [is_playoffs |-> FALSE, is_consolation |-> FALSE]
        Playoff == [is_playoffs |-> TRUE, is_consolation |-> FALSE]
    IN  IF week < PlayoffStartWeek
        THEN {<<FlaggedMatchup(week, PlayoffOpening[1], o, Unflagged, 3),
                FlaggedMatchup(week, PlayoffOpening[2], "team1", Unflagged, 2)>> :
              o \in FirstOutcomes}
        ELSE {<<FlaggedMatchup(week, pairing[1], o, flags, 3),
                FlaggedMatchup(week, pairing[2], "team2", Playoff, 2)>> :
              pairing \in PlayoffPairings, o \in FirstOutcomes, flags \in PlayoffFlags}

\* The playoff league completes the next week of its season.
CompletePlayoffWeek ==
    \E settings \in PlayoffShapes :
        /\ api # <<>> => settings = api[1].settings
        /\ Len(api) < TotalWeeks(settings)
        /\ \E matchups \in PlayoffSlates(Len(api) + 1) :
               api' = Append(api, [season |-> FirstSeason, week |-> Len(api) + 1,
                                   settings |-> settings, matchups |-> matchups])
        /\ UNCHANGED <<last_processed_week, build_error, report_error>>
        /\ UNCHANGED <<league, files, raw_data, historical_data, h2h_records,
                       h2h_weeks, merged, merge_error, merge_by>>

InitPlayoffs ==
    /\ league = Range(PlayoffOpening) \cup UNION {Range(p) : p \in PlayoffPairings}
    /\ api = <<>>
    /\ files = {}
    /\ raw_data = <<>>
    /\ historical_data = <<>>
    /\ h2h_records = <<>>
    /\ h2h_weeks = <<>>
    /\ merged = <<>>
    /\ merge_error = "none"
    /\ merge_by = "none"
    /\ build_error = "none"
    /\ report_error = "none"
    /\ last_processed_week = 0

NextPlayoffs ==
    \/ CompletePlayoffWeek
    \/ CacheAllRawData
    \/ BuildHistoricalData

SpecPlayoffs == InitPlayoffs /\ [][NextPlayoffs]_vars

(***************************************************************************)
(* The co-managed league: in its one week a team with up to                *)
(* MaxCoManagers managers, of whom any number have the nickname of the     *)
(* operator, plays the team of nick.                                       *)
(***************************************************************************)

\* The largest number of managers of a team.
MaxCoManagers == 3

CoManagerNicknames == {YOUR_NICKNAME, "Ryan", "cooper"}

\* The lists of managers of the co-managed team.
CoManagerLists ==
    UNION {[1..n -> CoManagerNicknames] : n \in 1..MaxCoManagers}

\* The co-managed league completes its week.
CompleteCoManagedWeek ==
    /\ api = <<>>
    /\ \E managers \in CoManagerLists, outcome \in {"team1", "team2"} :
           api' = <<[season |-> FirstSeason, week |-> 1, settings |-> LeagueSettings,
                     matchups |->
                         <<[Matchup(1, <<managers[1], "nick">>, outcome, "regular")
                               EXCEPT !.teams[1].managers = managers]>>]>>
    /\ UNCHANGED <<last_processed_week, build_error, report_error>>
    /\ UNCHANGED <<league, files, raw_data, historical_data, h2h_records, h2h_weeks,
                   merged, merge_error, merge_by>>

InitCoManagers ==
    /\ league = {<<m, "nick">> : m \in CoManagerNicknames}
    /\ api = <<>>
    /\ files = {}
    /\ raw_data = <<>>
    /\ historical_data = <<>>
    /\ h2h_records = <<>>
    /\ h2h_weeks = <<>>
    /\ merged = <<>>
    /\ merge_error = "none"
    /\ merge_by = "none"
    /\ build_error = "none"
    /\ report_error = "none"
    /\ last_processed_week = 0

NextCoManagers ==
    \/ CompleteCoManagedWeek
    \/ CacheAllRawData
    \/ BuildHistoricalData

SpecCoManagers == InitCoManagers /\ [][NextCoManagers]_vars

(***************************************************************************)
(* build_history.py and build_raw_data_cache.py of the top-level           *)
(* directory: the scripts that keep raw_api_cache.pkl and                  *)
(* historical_data.json in the working directory.  The snapshot is that of *)
(* tools/build_raw_data_cache.py; the classifier has no standings pass and *)
(* tests is_consolation only for a matchup flagged is_playoffs.            *)
(***************************************************************************)

\* build_history.py, lines 69-85: the game type of matchup m of the given
\* week, where st holds semi_final_winners and semi_final_losers so far.
TopLevelClassifyGameType(st, week, m, settings) ==
    LET pair == {get_primary_manager(m.teams[1], YOUR_NICKNAME),
                 get_primary_manager(m.teams[2], YOUR_NICKNAME)}
        semi_final_week_offset == IF settings.num_playoff_teams >= 6 THEN 1 ELSE 0
        semi_final_week == settings.playoff_start_week + semi_final_week_offset
    IN  IF ~m.is_playoffs THEN "regular"
        ELSE IF m.is_consolation THEN "consolation"
        ELSE IF week = semi_final_week THEN "SF"
        ELSE IF week > semi_final_week
        THEN IF pair \subseteq Range(st.semi_final_winners) THEN "1st"
             ELSE IF pair \subseteq Range(st.semi_final_losers) THEN "3rd"
             ELSE "regular"
        ELSE "QF"

\* build_history.py, lines 62-97: the body of the inner loop for one matchup.
TopLevelClassifyMatchup(st, season, week, m, settings) ==
    LET manager1 == get_primary_manager(m.teams[1], YOUR_NICKNAME)
        manager2 == get_primary_manager(m.teams[2], YOUR_NICKNAME)
        game_type == TopLevelClassifyGameType(st, week, m, settings)
        is_sf == game_type = "SF"
        team1_won == m.teams[1].team_key = m.winner_team_key
        winner_manager_name ==
            IF m.is_tied THEN None
            ELSE IF m.teams[1].points > m.teams[2].points THEN manager1 ELSE manager2
    IN  [semi_final_winners |->
             IF is_sf THEN Append(st.semi_final_winners,
                                  IF team1_won THEN manager1 ELSE manager2)
             ELSE st.semi_final_winners,
         semi_final_losers |->
             IF is_sf THEN Append(st.semi_final_losers,
                                  IF team1_won THEN manager2 ELSE manager1)
             ELSE st.semi_final_losers,
         out |-> Append(st.out,
                    [season |-> season, week |-> week, game_type |-> game_type,
                     team1_manager_name |-> manager1,
                     team2_manager_name |-> manager2,
                     team1_score |-> m.teams[1].points,
                     team2_score |-> m.teams[2].points,
                     winner_manager_name |-> winner_manager_name])]

RECURSIVE TopLevelClassifyMatchups(_, _, _, _, _)
TopLevelClassifyMatchups(st, season, week, matchups, settings) ==
    IF matchups = <<>> THEN st
    ELSE TopLevelClassifyMatchup(
             TopLevelClassifyMatchups(st, season, week, Front(matchups), settings),
             season, week, Last(matchups), settings)

RECURSIVE TopLevelClassifyWeeks(_, _, _, _)
\* build_history.py, lines 55-97: the weeks of one season, in dict order.
TopLevelClassifyWeeks(st, season, weeks_data, settings) ==
    IF weeks_data = <<>> THEN st
    ELSE TopLevelClassifyMatchups(
             TopLevelClassifyWeeks(st, season, Front(weeks_data), settings),
             season, Last(weeks_data).week, Last(weeks_data).matchups, settings)

RECURSIVE TopLevelBuildHistory(_)
\* build_history.py, lines 38-97: all_matchups_data for the snapshot.
TopLevelBuildHistory(raw) ==
    IF raw = <<>> THEN <<>>
    ELSE LET all_matchups_data == TopLevelBuildHistory(Front(raw))
             season_data == Last(raw)
         IN  IF SeasonSkipped(season_data) THEN all_matchups_data
             ELSE all_matchups_data \o
                  TopLevelClassifyWeeks(
                      [semi_final_winners |-> <<>>, semi_final_losers |-> <<>>,
                       out |-> <<>>],
                      season_data.season, season_data.weeks, season_data.settings).out

\* build_raw_data_cache.py run as a script.
TopLevelCacheAllRawData ==
    /\ raw_data' = cache_all_raw_data(api)
    /\ files' = files \cup {"raw_api_cache.pkl"}
    /\ UNCHANGED <<last_processed_week, build_error, report_error>>
    /\ UNCHANGED <<league, api, historical_data, h2h_records, h2h_weeks,
                   merged, merge_error, merge_by>>

\* build_history.py run as a script: lines 30-36 and 99-100.
TopLevelBuildHistoricalData ==
    /\ "raw_api_cache.pkl" \in files
    /\ historical_data' = TopLevelBuildHistory(raw_data)
    /\ files' = files \cup {"historical_data.json"}
    /\ merged' = <<>>
    /\ merge_error' = "none"
    /\ merge_by' = "none"
    /\ UNCHANGED <<last_processed_week, build_error, report_error>>
    /\ UNCHANGED <<league, api, raw_data, h2h_records, h2h_weeks>>

(***************************************************************************)
(* init_h2h_records.py and generate_preview.py of the top-level directory  *)
(***************************************************************************)

RECURSIVE TopLevelTallyWins(_, _, _)
\* init_h2h_records.py lines 17-38: the win counters and the playoff
\* history, whose entries carry no week.
TopLevelTallyWins(games, name1, name2) ==
    IF games = <<>>
    THEN [n1_reg_wins |-> 0, n2_reg_wins |-> 0,
          n1_playoff_wins |-> 0, n2_playoff_wins |-> 0, playoff_history |-> <<>>]
    ELSE LET t == TopLevelTallyWins(Front(games), name1, name2)
             game == Last(games)
             Entry(name) == [winner |-> name, type |-> game.game_type,
                             season |-> game.season]
         IN  IF game.game_type = "consolation" THEN t
             ELSE IF game.winner_manager_name = name1
             THEN IF game.game_type \in PlayoffTypes
                  THEN [t EXCEPT !.n1_playoff_wins = @ + 1,
                                 !.playoff_history = Append(@, Entry(name1))]
                  ELSE [t EXCEPT !.n1_reg_wins = @ + 1]
             ELSE IF game.winner_manager_name = name2
             THEN IF game.game_type \in PlayoffTypes
                  THEN [t EXCEPT !.n2_playoff_wins = @ + 1,
                                 !.playoff_history = Append(@, Entry(name2))]
                  ELSE [t EXCEPT !.n2_reg_wins = @ + 1]
             ELSE t

\* init_h2h_records.py lines 7-61.
TopLevelH2hForPair(name1, name2, all_matchups) ==
    LET relevant_games == RelevantGames(name1, name2, all_matchups)
        t == TopLevelTallyWins(relevant_games, name1, name2)
        c == CurrentStreak(relevant_games)
    IN  IF relevant_games = <<>> THEN NoRecord
        ELSE [manager1_name |-> name1,
              manager2_name |-> name2,
              reg_wins_1 |-> t.n1_reg_wins,
              reg_wins_2 |-> t.n2_reg_wins,
              playoff_wins_1 |-> t.n1_playoff_wins,
              playoff_wins_2 |-> t.n2_playoff_wins,
              playoff_history |-> t.playoff_history,
              streak_holder |-> c.streak_holder,
              streak_len |-> c.streak_len,
              last_game |-> GameDate(Last(relevant_games))]

RECURSIVE TopLevelStoreOfPairs(_, _)
\* init_h2h_records.py lines 86-92.
TopLevelStoreOfPairs(manager_pairs, ledger) ==
    IF manager_pairs = <<>> THEN <<>>
    ELSE LET all_h2h_records == TopLevelStoreOfPairs(Front(manager_pairs), ledger)
             name1 == Last(manager_pairs)[1]
             name2 == Last(manager_pairs)[2]
             h2h_record == TopLevelH2hForPair(name1, name2, ledger)
         IN  IF h2h_record # NoRecord
             THEN DictSet(all_h2h_records, PairKey(name1, name2), h2h_record)
             ELSE all_h2h_records

\* init_h2h_records.py run as a script: main, lines 63-98, with the
\* iteration order of the set manager_names.
TopLevelInitH2hRecords ==
    /\ "historical_data.json" \in files
    /\ \E order \in SetOrders(ManagerNames(historical_data)) :
           h2h_records' = TopLevelStoreOfPairs(Combinations2(order), historical_data)
    /\ h2h_weeks' = <<>>
    /\ files' = files \cup {"h2h_records.json"}
    /\ UNCHANGED <<last_processed_week, build_error, report_error>>
    /\ UNCHANGED <<league, api, raw_data, historical_data, merged, merge_error, merge_by>>

\* generate_preview.py lines 24-82: the body of the loop, for one matchup.
TopLevelUpdateWithMatchup(store, matchup, season, settings) ==
    LET manager1 == matchup.teams[1].managers[1]
        manager2 == matchup.teams[2].managers[1]
        key == PairKey(manager1, manager2)
        game_type == UpdateGameType(matchup, settings)
        record == DictGet(store, key)
        winner_name ==
            IF ~matchup.is_tied
            THEN IF matchup.winner_team_key = matchup.teams[1].team_key
                 THEN manager1 ELSE manager2
            ELSE None
        is_manager1_winner == winner_name = record.manager1_name
        entry == [winner |-> winner_name, type |-> game_type, season |-> season]
        counted ==
            IF game_type \in PlayoffTypes
            THEN IF is_manager1_winner
                 THEN [record EXCEPT !.playoff_wins_1 = @ + 1,
                                     !.playoff_history = Append(@, entry)]
                 ELSE [record EXCEPT !.playoff_wins_2 = @ + 1,
                                     !.playoff_history = Append(@, entry)]
            ELSE IF is_manager1_winner
                 THEN [record EXCEPT !.reg_wins_1 = @ + 1]
                 ELSE [record EXCEPT !.reg_wins_2 = @ + 1]
        streaked ==
            IF counted.streak_holder = winner_name
            THEN [counted EXCEPT !.streak_len = @ + 1]
            ELSE [counted EXCEPT !.streak_holder = winner_name, !.streak_len = 1]
        updated ==
            [streaked EXCEPT !.last_game = [season |-> season, week |-> matchup.week]]
    IN  IF manager1 = "--hidden--" \/ manager2 = "--hidden--" THEN store
        ELSE IF ~DictHas(store, key) THEN store
        ELSE IF game_type = "consolation" THEN store
        ELSE IF winner_name = None THEN store
        ELSE DictSet(store, key, updated)

RECURSIVE TopLevelUpdateH2hRecords(_, _, _, _)
\* generate_preview.py lines 15-84, update_h2h_records.
TopLevelUpdateH2hRecords(week_results, store, season, settings) ==
    IF week_results = <<>> THEN store
    ELSE TopLevelUpdateWithMatchup(
             TopLevelUpdateH2hRecords(Front(week_results), store, season, settings),
             Last(week_results), season, settings)

(***************************************************************************)
(* dashboard_final_standings.py                                            *)
(***************************************************************************)

SEASONS_TO_HIDE == {2025}

\* Lines 28-39: records[name] of the season, from its regular ledger games.
SeasonStats(season_games, name) ==
    LET Won(g) == g.winner_manager_name = name
        Of(g) == name \in {g.team1_manager_name, g.team2_manager_name}
        Pf(g) == (IF g.team1_manager_name = name THEN g.team1_score ELSE 0)
                     + (IF g.team2_manager_name = name THEN g.team2_score ELSE 0)
        played == SelectSeq(season_games, Of)
        pfs == [i \in DOMAIN played |-> Pf(played[i])]
        Sum[i \in 0..Len(pfs)] == IF i = 0 THEN 0 ELSE Sum[i - 1] + pfs[i]
    IN  [wins |-> Len(SelectSeq(played, Won)), pf |-> Sum[Len(pfs)]]

\* Lines 28-39: records and managers of the season.
SeasonRecords(season, ledger) ==
    LET Regular(g) == g.season = season /\ g.game_type = "regular"
        season_games == SelectSeq(ledger, Regular)
        managers == UNION {{season_games[i].team1_manager_name,
                            season_games[i].team2_manager_name} :
                           i \in DOMAIN season_games}
    IN  [name \in managers |-> SeasonStats(season_games, name)]

\* Lines 40-41: sorted_managers, whose positions are the ranks of rank_map;
\* order is the iteration order of the set managers.
SortedByRecord(records, order) ==
    LET Listed(name) == name \in DOMAIN records
        listed == SelectSeq(order, Listed)
        keyed == [i \in DOMAIN listed |-> [name |-> listed[i], record |-> records[listed[i]]]]
        Better(a, b) == \/ a.record.wins > b.record.wins
                        \/ a.record.wins = b.record.wins /\ a.record.pf > b.record.pf
        sorted == StableSort(keyed, Better)
    IN  [i \in DOMAIN sorted |-> sorted[i].name]

\* Lines 22-42.
calculate_regular_season_stats(season, ledger, order) ==
    SortedByRecord(SeasonRecords(season, ledger), order)

\* Line 127.
StandingsLoser(g) ==
    IF g.winner_manager_name = g.team1_manager_name
    THEN g.team2_manager_name ELSE g.team1_manager_name

StandingsWinner(g) ==
    IF g.winner_manager_name = g.team1_manager_name
    THEN g.team1_manager_name ELSE g.team2_manager_name

RECURSIVE PlaceFinalists(_)
\* Lines 125-130: final_ranks_this_season and qf_losers after the loop over
\* playoff_games.
PlaceFinalists(playoff_games) ==
    IF playoff_games = <<>> THEN [final_ranks |-> <<>>, qf_losers |-> <<>>]
    ELSE LET p == PlaceFinalists(Front(playoff_games))
             g == Last(playoff_games)
             winner == StandingsWinner(g)
             loser == StandingsLoser(g)
         IN  IF g.game_type = "1st"
             THEN [p EXCEPT !.final_ranks = DictSet(DictSet(@, winner, 1), loser, 2)]
             ELSE IF g.game_type = "3rd"
             THEN [p EXCEPT !.final_ranks = DictSet(DictSet(@, winner, 3), loser, 4)]
             ELSE IF g.game_type = "QF"
             THEN [p EXCEPT !.qf_losers = Append(@, loser)]
             ELSE p

\* reg_season_rank_map.get(name, 99)
RegRank(sorted_managers, name) ==
    IF name \in Range(sorted_managers)
    THEN CHOOSE i \in DOMAIN sorted_managers : sorted_managers[i] = name
    ELSE 99

\* Lines 121-135: [ranks, error] of one season: final_ranks_this_season, or
\* the IndexError of qf_losers[1].
FinalRanksThisSeason(season, ledger, sorted_managers) ==
    LET InSeason(g) == g.season = season
        Playoff(g) == g.game_type \in {"QF", "SF", "1st", "3rd"}
        playoff_games == SelectSeq(SelectSeq(ledger, InSeason), Playoff)
        placed == PlaceFinalists(playoff_games)
        qf_losers == placed.qf_losers
        qf_loser1_reg_rank == RegRank(sorted_managers, qf_losers[1])
        qf_loser2_reg_rank == RegRank(sorted_managers, qf_losers[2])
    IN  IF qf_losers = <<>> THEN [ranks |-> placed.final_ranks, error |-> "none"]
        ELSE IF Len(qf_losers) < 2
        THEN [ranks |-> placed.final_ranks, error |-> "IndexError"]
        ELSE IF qf_loser1_reg_rank < qf_loser2_reg_rank
        THEN [ranks |-> DictSet(DictSet(placed.final_ranks, qf_losers[1], 5),
                                qf_losers[2], 6),
              error |-> "none"]
        ELSE [ranks |-> DictSet(DictSet(placed.final_ranks, qf_losers[2], 5),
                                qf_losers[1], 6),
              error |-> "none"]

RECURSIVE AppendFinishes(_, _, _, _)
\* Lines 136-140: manager_final_ranks after the loop over the rank map, from
\* its i-th entry on.
AppendFinishes(manager_final_ranks, season, sorted_managers, final_ranks) ==
    IF sorted_managers = <<>> THEN manager_final_ranks
    ELSE LET done == AppendFinishes(manager_final_ranks, season,
                                    Front(sorted_managers), final_ranks)
             manager_name == Last(sorted_managers)
             reg_rank == Len(sorted_managers)
             final_rank == IF DictHas(final_ranks, manager_name)
                           THEN DictGet(final_ranks, manager_name) ELSE reg_rank
             finish == [season |-> season, rank |-> final_rank]
         IN  DictSet(done, manager_name,
                     IF DictHas(done, manager_name)
                     THEN Append(DictGet(done, manager_name), finish)
                     ELSE <<finish>>)

RECURSIVE FinalRanksOfSeasons(_, _, _)
\* Lines 106-140: [store, error]: manager_final_ranks after the seasons of
\* all_seasons, or when the exception was raised.  Line 111 calls
\* calculate_regular_season_stats once per season and each call builds its
\* own set managers: orders[i] is the iteration order of the call for
\* all_seasons[i].
FinalRanksOfSeasons(all_seasons, ledger, orders) ==
    IF all_seasons = <<>> THEN [store |-> <<>>, error |-> "none"]
    ELSE LET before == FinalRanksOfSeasons(Front(all_seasons), ledger, orders)
             season == Last(all_seasons)
             sorted_managers == calculate_regular_season_stats(season, ledger,
                                    orders[Len(all_seasons)])
             placed == FinalRanksThisSeason(season, ledger, sorted_managers)
         IN  IF before.error # "none" \/ season \in SEASONS_TO_HIDE THEN before
             ELSE IF placed.error # "none"
             THEN [store |-> before.store, error |-> placed.error]
             ELSE [store |-> AppendFinishes(before.store, season, sorted_managers,
                                            placed.ranks),
                   error |-> "none"]

\* Lines 100-148: manager_final_ranks after the merge of MANAGERS_TO_MERGE.
calculate_all_time_final_standings(ledger, orders) ==
    LET all_seasons == SeasonList({ledger[i].season : i \in DOMAIN ledger})
        ranked == FinalRanksOfSeasons(all_seasons, ledger, orders)
        source_finishes == DictGet(ranked.store, MergeSource)
        target_finishes == IF DictHas(ranked.store, MergeTarget)
                           THEN DictGet(ranked.store, MergeTarget) ELSE <<>>
    IN  IF ranked.error # "none" \/ ~DictHas(ranked.store, MergeSource) THEN ranked
        ELSE [store |-> DictDel(DictSet(ranked.store, MergeTarget,
                                        target_finishes \o source_finishes),
                                MergeSource),
              error |-> "none"]

\* The iteration orders of the set managers of one call of
\* calculate_regular_season_stats.  sorted() is stable, so the ranks depend
\* on the order only through the positions of managers with equal records,
\* and a list that is already sorted is left as it is: the orders that are
\* sorted by record give every rank map that any order gives.  A hidden
\* season is not passed to the function.
SeasonStandingsOrders(season, ledger) ==
    LET records == SeasonRecords(season, ledger)
        Better(a, b) == \/ records[a].wins > records[b].wins
                        \/ records[a].wins = records[b].wins
                           /\ records[a].pf > records[b].pf
        Sorted(order) ==
            \A i, j \in DOMAIN order : i < j => ~Better(order[j], order[i])
    IN  IF season \in SEASONS_TO_HIDE THEN {<<>>}
        ELSE {order \in SetOrders(DOMAIN records) : Sorted(order)}

RECURSIVE StandingsOrdersOfSeasons(_, _)
\* One order for every season of all_seasons, each drawn on its own.
StandingsOrdersOfSeasons(all_seasons, ledger) ==
    IF all_seasons = <<>> THEN {<<>>}
    ELSE {Append(before, order) :
              before \in StandingsOrdersOfSeasons(Front(all_seasons), ledger),
              order \in SeasonStandingsOrders(Last(all_seasons), ledger)}

\* The iteration orders that the script is run with.
StandingsOrders(ledger) ==
    StandingsOrdersOfSeasons(SeasonList({ledger[i].season : i \in DOMAIN ledger}),
                             ledger)

\* Line 10.
MANAGERS_TO_HIDE == <<"cooper", "nick", "Torin", "--hidden--">>

\* Lines 150-153 and 187-188: the manager is left out of the leaderboard and
\* of the finishing history when its name, in lower case, is among the
\* names of MANAGERS_TO_HIDE in lower case.
HiddenLower == {StrLower(MANAGERS_TO_HIDE[i]) : i \in DOMAIN MANAGERS_TO_HIDE}

HiddenManager(name) == StrLower(name) \in HiddenLower

\* Lines 184-191: the finishes of every manager the history shows are
\* sorted by season, in place.
SortShownFinishes(ranks) ==
    LET EarlierSeason(a, b) == a.season < b.season
    IN  [i \in DOMAIN ranks |->
            IF HiddenManager(ranks[i].key) THEN ranks[i]
            ELSE [key |-> ranks[i].key,
                  value |-> StableSort(ranks[i].value, EarlierSeason)]]

\* dashboard_final_standings.py run as a script: lines 93-98 and 100-205;
\* manager_final_ranks when the script ends.
DashboardFinalStandings ==
    /\ "historical_data.json" \in files
    /\ \E orders \in StandingsOrders(historical_data) :
           LET result == calculate_all_time_final_standings(historical_data, orders)
           IN  /\ merged' = IF result.error = "none"
                            THEN SortShownFinishes(result.store)
                            ELSE result.store
               /\ merge_error' = result.error
    /\ merge_by' = "dashboard_final_standings"
    /\ UNCHANGED <<last_processed_week, build_error, report_error>>
    /\ UNCHANGED <<league, api, files, raw_data, historical_data, h2h_records, h2h_weeks>>

NextScripts ==
    \/ CompletePlayoffWeek
    \/ TopLevelCacheAllRawData
    \/ TopLevelBuildHistoricalData
    \/ DashboardFinalStandings

\* The playoff league with the scripts of the top-level directory.
SpecScripts == InitPlayoffs /\ [][NextScripts]_vars

(***************************************************************************)
(* The league over its seasons: leagues.json lists a season from the day   *)
(* its league is created, before its first week is final; the API may      *)
(* return a team without managers; build_site.py works on TARGET_SEASON.   *)
(***************************************************************************)

TARGET_SEASON == 2025

\* leagues.json: the seasons with a final week and the season of the next
\* week, oldest first.
LeaguesJson(weeks) ==
    SeasonList(Seasons(weeks) \cup {Calendar(Len(weeks) + 1).season})

\* leagues.json is a JSON object written by hand, and json.load keeps the
\* order of its keys: the file lists its seasons oldest first or newest
\* first.
LeaguesJsonFiles(weeks) ==
    {LeaguesJson(weeks), Reverse(LeaguesJson(weeks))}

\* tools/build_raw_data_cache.py lines 74-112 for one season of leagues.json:
\* its settings and its final weeks.
FetchSeason(season, weeks) ==
    LET InSeason(w) == w.season = season /\ w.week <= TotalWeeks(w.settings)
        ws == SelectSeq(weeks, InSeason)
    IN  [season |-> season,
         settings |-> IF ws = <<>> THEN LeagueSettings ELSE ws[1].settings,
         weeks |-> [i \in DOMAIN ws |-> [week |-> ws[i].week, matchups |-> ws[i].matchups]]]

\* Lines 62-119 of tools/build_raw_data_cache.py over leagues.json.
cache_leagues(all_leagues, weeks) ==
    [i \in DOMAIN all_leagues |-> FetchSeason(all_leagues[i], weeks)]

\* The final weeks of the season that the API returns.
CompletedWeeks(season) ==
    Cardinality({i \in DOMAIN api : api[i].season = season})

\* query.get_league_matchups_by_week(week) for the target season.
LeagueMatchupsByWeek(week) ==
    LET i == CHOOSE i \in DOMAIN api :
                 api[i].season = TARGET_SEASON /\ api[i].week = week
    IN  api[i].matchups

WeekString(week) ==
    IF week < 10 THEN SubSeq("0123456789", week + 1, week + 1)
    ELSE SubSeq("0123456789", (week \div 10) + 1, (week \div 10) + 1)
             \o SubSeq("0123456789", (week % 10) + 1, (week % 10) + 1)

\* cache/week_<week>_matchups.pkl
WeeklyCacheFile(week) == "week_" \o WeekString(week) \o "_matchups.pkl"

\* Lines 48-54 of tools/build_raw_data_cache.py: raw_data[season]["weeks"]
\* [str(week)] = weekly_matchups, in the insertion order of the dicts.
AddWeek(raw, season, week, weekly_matchups) ==
    LET present == \E s \in DOMAIN raw : raw[s].season = season
        seasons == IF present THEN raw
                   ELSE Append(raw, [season |-> season, settings |-> NoSettings,
                                     weeks |-> <<>>])
        SetWeek(weeks_data) ==
            IF \E w \in DOMAIN weeks_data : weeks_data[w].week = week
            THEN [w \in DOMAIN weeks_data |->
                     IF weeks_data[w].week = week
                     THEN [week |-> week, matchups |-> weekly_matchups]
                     ELSE weeks_data[w]]
            ELSE Append(weeks_data, [week |-> week, matchups |-> weekly_matchups])
    IN  [s \in DOMAIN seasons |->
            IF seasons[s].season = season
            THEN [seasons[s] EXCEPT !.weeks = SetWeek(@)]
            ELSE seasons[s]]

\* update_raw_data_cache(season, week), lines 20-60: [raw_data, files] after
\* the call.
update_raw_data_cache(raw, stored, season, week) ==
    IF WeeklyCacheFile(week) \notin stored THEN [raw_data |-> raw, files |-> stored]
    ELSE [raw_data |-> AddWeek(IF "raw_api_cache.pkl" \in stored THEN raw ELSE <<>>,
                               season, week, LeagueMatchupsByWeek(week)),
          files |-> stored \cup {"raw_api_cache.pkl"}]

\* tools/dashboard_weekly_report.py: the nicknames that
\* team.managers[0].nickname gives for the teams of the week.
ReportNicknames(week) ==
    LET matchups == LeagueMatchupsByWeek(week)
    IN  UNION {{matchups[m].teams[1].managers[1],
                matchups[m].teams[2].managers[1]} : m \in DOMAIN matchups}

\* Lines 106-107 and 339: team.managers[0] raises IndexError for a team of
\* the week without managers.
ReportRaisesIndexError(week) ==
    LET matchups == LeagueMatchupsByWeek(week)
    IN  \E m \in DOMAIN matchups :
            \E t \in 1..2 : HasNoManager(matchups[m].teams[t])

\* run_report_process(target_season, last_completed_week) of
\* tools/dashboard_weekly_report.py, lines 305-350: [files, error]: the files
\* in cache/ and data/ after the call and the exception that ends it.
\* Line 312 raises KeyError when leagues.json does not list the target
\* season.  process_and_cache_week writes the file of a week (lines 92-93)
\* before it reads the managers of its teams (lines 106-107), and line 339
\* reads them again for a week whose file exists: a team without managers
\* ends the call at its week, before the files of the later weeks and
\* report_card_data.json are written.  prepare_report_data (lines 215-297)
\* walks the managers of week_<report_week>_alt_standings.pkl, who are the
\* managers of the weeks 1..report_week, and line 288 subscripts the weekly
\* score of each, which is None for a manager without a game in the report
\* week: TypeError, before report_card_data.json is written at line 295.
run_report_process(stored, last_completed_week) ==
    LET configured == \E i \in DOMAIN LeaguesJson(api) :
                          LeaguesJson(api)[i] = TARGET_SEASON
        unmanaged == {week \in 1..last_completed_week : ReportRaisesIndexError(week)}
        first == CHOOSE week \in unmanaged : \A other \in unmanaged : week <= other
        Cached(n) == stored \cup {WeeklyCacheFile(week) : week \in 1..n}
        idle == \E week \in 1..last_completed_week :
                    ReportNicknames(week) \ ReportNicknames(last_completed_week) # {}
    IN  IF ~configured THEN [files |-> stored, error |-> "KeyError"]
        ELSE IF last_completed_week = 0 THEN [files |-> stored, error |-> "none"]
        ELSE IF unmanaged # {} THEN [files |-> Cached(first), error |-> "IndexError"]
        ELSE IF idle THEN [files |-> Cached(last_completed_week), error |-> "TypeError"]
        ELSE [files |-> Cached(last_completed_week) \cup {"report_card_data.json"},
              error |-> "none"]

\* The league completes its next week; the API lists no manager for the
\* first team when listed is FALSE.
CompleteSeasonWeek ==
    /\ Len(api) < MaxWeeks
    /\ LET date == Calendar(Len(api) + 1)
       IN  \E pair \in league, kind \in KindsOfWeek(date.week), listed \in BOOLEAN :
             \E outcome \in IF listed THEN {"team1", "team2"} ELSE {"team1"} :
               LET m == Matchup(date.week, pair, outcome, kind)
                   shown == IF listed THEN m
                            ELSE [m EXCEPT !.teams[1].managers = <<>>]
               IN  api' = Append(api, [season |-> date.season, week |-> date.week,
                                       settings |-> LeagueSettings,
                                       matchups |-> <<shown>>])
    /\ UNCHANGED <<league, files, raw_data, historical_data, h2h_records, h2h_weeks,
                   merged, merge_error, merge_by, build_error, report_error, last_processed_week>>

\* tools/build_raw_data_cache.py run as a script, with the seasons of
\* leagues.json in the order the file lists them.
CacheLeagues ==
    /\ \E all_leagues \in LeaguesJsonFiles(api) :
           raw_data' = cache_leagues(all_leagues, api)
    /\ files' = files \cup {"raw_api_cache.pkl"}
    /\ UNCHANGED <<league, api, historical_data, h2h_records, h2h_weeks,
                   merged, merge_error, merge_by, build_error, report_error, last_processed_week>>

\* The weekly report of the target season.
RunReportProcess ==
    LET result == run_report_process(files, CompletedWeeks(TARGET_SEASON))
    IN  /\ files' = result.files
        /\ report_error' = result.error
        /\ UNCHANGED <<league, api, raw_data, historical_data, h2h_records, h2h_weeks,
                       merged, merge_error, merge_by, build_error, last_processed_week>>

\* update_raw_data_cache called for the last completed week of the target
\* season.
UpdateRawDataCache ==
    LET result == update_raw_data_cache(raw_data, files, TARGET_SEASON,
                                        CompletedWeeks(TARGET_SEASON))
    IN  /\ raw_data' = result.raw_data
        /\ files' = result.files
        /\ UNCHANGED <<league, api, historical_data, h2h_records, h2h_weeks,
                       merged, merge_error, merge_by, build_error, report_error, last_processed_week>>

NextSeasons ==
    \/ CompleteSeasonWeek
    \/ CacheLeagues
    \/ RunReportProcess
    \/ UpdateRawDataCache
    \/ BuildHistoricalData

SpecSeasons == Init /\ [][NextSeasons]_vars

(***************************************************************************)
(* The league of the dashboards in a season with two playoff weeks          *)
(***************************************************************************)

\* The league of the dashboards completes the next week of its season.
CompleteAliasWeek ==
    /\ Len(api) < TotalWeeks(LeagueSettings)
    /\ LET week == Len(api) + 1
       IN  \E pair \in league, kind \in KindsOfWeek(week) :
             \E outcome \in {"team1", "team2"} :
               api' = Append(api, [season |-> FirstSeason, week |-> week,
                                   settings |-> LeagueSettings,
                                   matchups |-> <<Matchup(week, pair, outcome, kind)>>])
    /\ UNCHANGED <<league, files, raw_data, historical_data, h2h_records, h2h_weeks,
                   merged, merge_error, merge_by, build_error, report_error, last_processed_week>>

NextAliasSeason ==
    \/ CompleteAliasWeek
    \/ RunFullHistoricalBuild
    \/ DashboardH2h
    \/ DashboardStreaks

SpecAliasSeason == InitMerge /\ [][NextAliasSeason]_vars

(***************************************************************************)
(* build_site.py                                                           *)
(***************************************************************************)

\* Lines 490-500: every file of cache/ but raw_api_cache.pkl is removed.
\* The files of cache/ are raw_api_cache.pkl and the weekly cache files.
ClearWeeklyCache(stored) ==
    {f \in stored : f \notin {WeeklyCacheFile(week) : week \in 0..MaxWeeks}}

\* The files run_full_historical_build writes.
HistoricalBuildFiles ==
    {"raw_api_cache.pkl", "historical_data.json", "h2h_records.json"}

\* Lines 473-474.
LastCompletedWeek == (CompletedWeeks(TARGET_SEASON) + 1) - 1

\* The position in api of the week of the target season.
TargetWeekIndex(week) ==
    CHOOSE i \in DOMAIN api : api[i].season = TARGET_SEASON /\ api[i].week = week

\* Lines 476-485.
NeedsRefresh(force_refresh, stored) ==
    \/ force_refresh
    \/ LastCompletedWeek > last_processed_week
    \/ "preview_data.json" \notin stored
    \/ "report_card_data.json" \notin stored

\* tools/generate_preview.py lines 223-236, run_preview_process(TARGET_SEASON,
\* preview_week) on the given store: the store it leaves in h2h_records.json.
run_preview_process(store, preview_week) ==
    IF preview_week > 1
    THEN update_h2h_records(LeagueMatchupsByWeek(preview_week - 1), store,
                            TARGET_SEASON, api[TargetWeekIndex(preview_week - 1)].settings)
    ELSE store

\* build_site.py main, lines 449-520, with the --force-refresh flag given or
\* not.  The one-time setup of lines 457-459 and step 2 of the refresh both
\* run run_full_historical_build, which reads leagues.json in the order the
\* file lists its seasons; leagues.json without the target season ends the
\* run with KeyError at line 465, and an exception of run_report_process
\* ends it before lines 515-517 write data/state.json.
BuildSite ==
    \E force_refresh \in BOOLEAN, all_leagues \in LeaguesJsonFiles(api) :
        LET raw == cache_leagues(all_leagues, api)
            setup == "h2h_records.json" \notin files
            configured ==
                \E i \in DOMAIN LeaguesJson(api) :
                    LeaguesJson(api)[i] = TARGET_SEASON
        IN  IF RaisesIndexError(raw)
            THEN \* run_full_historical_build writes raw_api_cache.pkl and
                 \* build_historical_data_from_cache raises IndexError, in
                 \* the setup of line 459 or in step 2 of the refresh, after
                 \* the weekly cache is cleared and step 1 found no file.
                 IF setup \/ (configured /\ NeedsRefresh(force_refresh, files))
                 THEN /\ raw_data' = raw
                      /\ files' = (IF setup THEN files ELSE ClearWeeklyCache(files))
                                      \cup {"raw_api_cache.pkl"}
                      /\ build_error' = "IndexError"
                      /\ UNCHANGED <<league, api, historical_data, h2h_records,
                                     h2h_weeks, merged, merge_error, merge_by,
                                     report_error, last_processed_week>>
                 ELSE UNCHANGED vars
            ELSE
            \E seeding \in SeedingOrders(raw) :
              LET ledger == build_historical_data_from_cache(raw, seeding)
              IN  \E order \in SetOrders(ManagerNames(ledger)) :
                    LET rebuilt == initialize_h2h_records(ledger, order)
                        stored == IF setup THEN files \cup HistoricalBuildFiles ELSE files
                        refresh == configured /\ NeedsRefresh(force_refresh, stored)
                        cleared == ClearWeeklyCache(stored)
                        updated == update_raw_data_cache(IF setup THEN raw ELSE raw_data,
                                                         cleared, TARGET_SEASON,
                                                         LastCompletedWeek)
                        report == run_report_process(
                                      updated.files \cup HistoricalBuildFiles
                                          \cup {"preview_data.json"},
                                      LastCompletedWeek)
                    IN  IF refresh
                        THEN /\ raw_data' = raw
                             /\ historical_data' = ledger
                             /\ h2h_records' = run_preview_process(rebuilt,
                                                                   LastCompletedWeek + 1)
                             /\ h2h_weeks' = IF LastCompletedWeek + 1 > 1
                                             THEN <<TargetWeekIndex(LastCompletedWeek)>>
                                             ELSE <<>>
                             /\ files' = report.files
                             /\ report_error' = report.error
                             /\ last_processed_week' =
                                    IF report.error = "none" THEN LastCompletedWeek
                                    ELSE last_processed_week
                             /\ build_error' = "none"
                             /\ merged' = <<>>
                             /\ merge_error' = "none"
                             /\ merge_by' = "none"
                             /\ UNCHANGED <<league, api>>
                        ELSE IF setup
                        THEN /\ raw_data' = raw
                             /\ historical_data' = ledger
                             /\ h2h_records' = rebuilt
                             /\ h2h_weeks' = <<>>
                             /\ files' = stored
                             /\ build_error' = "none"
                             /\ merged' = <<>>
                             /\ merge_error' = "none"
                             /\ merge_by' = "none"
                             /\ UNCHANGED <<league, api, report_error, last_processed_week>>
                        ELSE UNCHANGED vars

NextSite ==
    \/ CompleteWeek
    \/ BuildSite

SpecSite == Init /\ [][NextSite]_vars

(***************************************************************************)
(* The pipeline run again on the same snapshot                             *)
(***************************************************************************)

MaxApplications == 2

\* The number of times the preview has applied the week to the store.
Applications(week) ==
    Cardinality({i \in DOMAIN h2h_weeks : h2h_weeks[i] = week})

\* run_preview_process called again with the same preview_week, on the
\* files the previous run left: tools/generate_preview.py lines 223-233 apply
\* the results of preview_week - 1 whenever the week is final, whether or
\* not the store holds them already (src/generate_preview.py main, lines
\* 190-203, does so with its fixed PREVIEW_WEEK; build_site.py main, lines
\* 505-509, calls it after a rebuild that includes the week).
RerunPreviewProcess ==
    /\ "h2h_records.json" \in files
    /\ api # <<>>
    /\ Len(api) = LastReflectedWeek
    /\ Applications(Len(api)) < MaxApplications
    /\ h2h_records' = update_h2h_records(Last(api).matchups, h2h_records,
                                         Last(api).season, Last(api).settings)
    /\ h2h_weeks' = Append(h2h_weeks, Len(api))
    /\ files' = files \cup {"preview_data.json"}
    /\ merged' = <<>>
    /\ merge_error' = "none"
    /\ merge_by' = "none"
    /\ UNCHANGED <<last_processed_week, build_error, report_error>>
    /\ UNCHANGED <<league, api, raw_data, historical_data>>

NextRerun ==
    \/ CompleteWeek
    \/ RunFullHistoricalBuild
    \/ RunPreviewProcess
    \/ RerunPreviewProcess

SpecRerun == Init /\ [][NextRerun]_vars

(***************************************************************************)
(* The scripts of the top-level directory in the league of the pipeline    *)
(***************************************************************************)

\* generate_preview.py line 170.
PREVIEW_WEEK == 2

\* generate_preview.py run as a script: main, lines 164-207.  Without the
\* target season in leagues.json the script ends with KeyError at line 175,
\* without h2h_records.json it returns at line 182, and while week
\* PREVIEW_WEEK - 1 of the target season is not final it writes nothing; in
\* each of the three cases the files are left as they are.  Every other run
\* applies the results of that week to the store and writes it.
TopLevelGeneratePreview ==
    /\ \E i \in DOMAIN LeaguesJson(api) : LeaguesJson(api)[i] = TARGET_SEASON
    /\ "h2h_records.json" \in files
    /\ PREVIEW_WEEK > 1
    /\ \E i \in DOMAIN api :
           api[i].season = TARGET_SEASON /\ api[i].week = PREVIEW_WEEK - 1
    /\ LET update_week == PREVIEW_WEEK - 1
           i == TargetWeekIndex(update_week)
       IN  /\ Applications(i) < MaxApplications
           /\ h2h_records' = TopLevelUpdateH2hRecords(api[i].matchups, h2h_records,
                                                      TARGET_SEASON, api[i].settings)
           /\ h2h_weeks' = Append(h2h_weeks, i)
    /\ UNCHANGED <<last_processed_week, build_error, report_error>>
    /\ UNCHANGED <<league, api, files, raw_data, historical_data,
                   merged, merge_error, merge_by>>

NextTopLevel ==
    \/ CompleteWeek
    \/ TopLevelCacheAllRawData
    \/ TopLevelBuildHistoricalData
    \/ TopLevelInitH2hRecords
    \/ TopLevelGeneratePreview

SpecTopLevel == Init /\ [][NextTopLevel]_vars

(***************************************************************************)
(* Properties of the ledger                                                *)
(***************************************************************************)

\* A step of tools/build_history.py: it writes the ledger of the cached
\* snapshot.
BuildStep ==
    /\ api' = api
    /\ raw_data' = raw_data
    /\ "raw_api_cache.pkl" \in files
    /\ "historical_data.json" \in files'

RECURSIVE MatchupsOfWeeks(_, _)
\* The matchups of the weeks of a season, week by week, each with its
\* season and week.
MatchupsOfWeeks(season, weeks_data) ==
    IF weeks_data = <<>> THEN <<>>
    ELSE LET w == Head(weeks_data)
         IN  [i \in DOMAIN w.matchups |->
                 [season |-> season, week |-> w.week, matchup |-> w.matchups[i]]]
                 \o MatchupsOfWeeks(season, Tail(weeks_data))

RECURSIVE ProcessedMatchups(_)
\* The matchups of the processed seasons of a snapshot, in the order of the
\* snapshot.
ProcessedMatchups(raw) ==
    IF raw = <<>> THEN <<>>
    ELSE (IF SeasonSkipped(Head(raw)) THEN <<>>
          ELSE MatchupsOfWeeks(Head(raw).season, Head(raw).weeks))
             \o ProcessedMatchups(Tail(raw))

\* The ledger record is the record of the matchup.
RecordOfMatchup(record, entry) ==
    /\ record.season = entry.season
    /\ record.week = entry.week
    /\ record.team1_manager_name \in Range(entry.matchup.teams[1].managers)
    /\ record.team2_manager_name \in Range(entry.matchup.teams[2].managers)
    /\ record.team1_score = entry.matchup.teams[1].points
    /\ record.team2_score = entry.matchup.teams[2].points

\* C12: for every processed season, each matchup yields exactly one ledger
\* record, and that record's game_type is one of regular, QF, SF, 1st, 3rd
\* and consolation.
C12_ClassificationCompleteness ==
    [][BuildStep =>
          LET processed == ProcessedMatchups(raw_data)
          IN  /\ Len(historical_data') = Len(processed)
              /\ \A i \in DOMAIN processed :
                     /\ RecordOfMatchup(historical_data'[i], processed[i])
                     /\ historical_data'[i].game_type
                            \in {"regular", "QF", "SF", "1st", "3rd", "consolation"}]_vars

\* The game types of the ledger.
LedgerGameTypes == {historical_data[i].game_type : i \in DOMAIN historical_data}

C12_Witness ==
    /\ LedgerExists
    /\ Cardinality(LedgerGameTypes) >= 5
    /\ Len(historical_data) = Len(ProcessedMatchups(raw_data))

\* The losers of the given ledger games: a tied game has none.
LosersOfGames(games) ==
    {IF historical_data[i].winner_manager_name = historical_data[i].team1_manager_name
     THEN historical_data[i].team2_manager_name
     ELSE historical_data[i].team1_manager_name :
     i \in {j \in games : historical_data[j].winner_manager_name # None}}

\* C13: in both bracket shapes a matchup is labelled 1st only if both of its
\* managers are winners of the season's SF games, and 3rd only if both of
\* its managers are losers of the season's SF games.
C13_FinalsAreBetweenSemiFinalists ==
    LedgerExists =>
        \A i \in DOMAIN historical_data :
            LET g == historical_data[i]
                semi_finals == LedgerGames(g.season, {"SF"})
                pair == {g.team1_manager_name, g.team2_manager_name}
            IN  /\ g.game_type = "1st" =>
                       pair \subseteq (WinnersOfGames(semi_finals) \ {None})
                /\ g.game_type = "3rd" => pair \subseteq LosersOfGames(semi_finals)

\* The snapshot without the matchups that the API flags as consolation.
WithoutFlagged(raw) ==
    LET Unflagged(m) == ~m.is_consolation
    IN  [s \in DOMAIN raw |->
            [raw[s] EXCEPT !.weeks =
                [w \in DOMAIN @ |-> [@[w] EXCEPT !.matchups = SelectSeq(@, Unflagged)]]]]

RECURSIVE RecordsOfUnflagged(_, _)
\* The ledger records of the matchups that the API does not flag as
\* consolation, where processed lists the matchups of the ledger.
RecordsOfUnflagged(ledger, processed) ==
    IF ledger = <<>> \/ processed = <<>> THEN <<>>
    ELSE (IF Head(processed).matchup.is_consolation THEN <<>> ELSE <<Head(ledger)>>)
             \o RecordsOfUnflagged(Tail(ledger), Tail(processed))

\* C14: every matchup that the API flags as consolation is labelled
\* consolation, whatever its week, its is_playoffs flag and the bracket
\* shape, and it adds nothing to the lists of QF winners, SF winners and SF
\* losers: the other matchups are labelled as in a snapshot without it.
C14_ConsolationFlagTakesPrecedence ==
    [][BuildStep =>
          LET processed == ProcessedMatchups(raw_data)
              others == RecordsOfUnflagged(historical_data', processed)
          IN  /\ Len(historical_data') = Len(processed)
              /\ \A i \in DOMAIN processed :
                     processed[i].matchup.is_consolation
                         => historical_data'[i].game_type = "consolation"
              /\ BuildHistoricalData =>
                     \E orders \in SeedingOrders(WithoutFlagged(raw_data)) :
                         others = build_historical_data_from_cache(
                                      WithoutFlagged(raw_data), orders)
              /\ TopLevelBuildHistoricalData =>
                     others = TopLevelBuildHistory(WithoutFlagged(raw_data))]_vars

(***************************************************************************)
(* Properties of the final standings                                       *)
(***************************************************************************)

\* The final standings were computed from the ledger.
StandingsRan == merge_by = "dashboard_final_standings"

\* The final rank the standings give a manager for a season, 0 when they
\* give none.
FinalRank(name, season) ==
    IF ~DictHas(merged, name) THEN 0
    ELSE LET finishes == DictGet(merged, name)
             OfSeason(f) == f.season = season
             found == SelectSeq(finishes, OfSeason)
         IN  IF found = <<>> THEN 0 ELSE found[1].rank

\* Manager a has the lower regular-season rank number of the two: more
\* wins, or as many wins and more points.
SeededAbove(season, a, b) ==
    LET regular == LedgerGames(season, {"regular"})
        Wins(name) == Cardinality({i \in regular :
                          historical_data[i].winner_manager_name = name})
        Pf(name) == LedgerPointsFor(historical_data, season, name)
    IN  \/ Wins(a) > Wins(b)
        \/ Wins(a) = Wins(b) /\ Pf(a) > Pf(b)

\* The seasons of the ledger that the standings rank and that have a QF
\* game.
SeasonsWithQuarterFinals ==
    {season \in {historical_data[i].season : i \in DOMAIN historical_data} :
        season \notin SEASONS_TO_HIDE /\ LedgerGames(season, {"QF"}) # {}}

\* C15: in every season with at least one QF game the standings are
\* computed and give the QF losers the final ranks 5 and 6, the one with the
\* lower regular-season rank number receiving 5, also when a QF game is
\* tied or fewer than two QF losers exist.
C15_QuarterFinalLosersRankFifthAndSixth ==
    StandingsRan =>
        \A season \in SeasonsWithQuarterFinals :
            LET losers == LosersOfGames(LedgerGames(season, {"QF"}))
            IN  /\ merge_error = "none"
                /\ \A a \in losers : FinalRank(a, season) \in {5, 6}
                /\ \A a, b \in losers :
                       SeededAbove(season, a, b)
                           => FinalRank(a, season) = 5 /\ FinalRank(b, season) = 6

\* The name is the primary manager the claim gives the team: of several
\* co-managers that include the operator and another manager, a co-manager
\* other than the operator; of co-managers who all are the operator, the
\* first listed; of a single manager, that manager.
IsPrimaryManager(name, team) ==
    LET managers == team.managers
        others == Range(managers) \ {YOUR_NICKNAME}
    IN  /\ Len(managers) = 1 => name = managers[1]
        /\ Len(managers) > 1 /\ YOUR_NICKNAME \in Range(managers) /\ others # {}
               => name \in others
        /\ Len(managers) > 1 /\ others = {} => name = managers[1]

\* C16: the manager the ledger names for a team is, for a team with several
\* co-managers that include the operator, a co-manager other than the
\* operator; for a team whose only managers are the operator, the first
\* listed manager; and for a team with a single manager, that manager.
C16_PrimaryManager ==
    [][BuildStep =>
          LET processed == ProcessedMatchups(raw_data)
          IN  /\ Len(historical_data') = Len(processed)
              /\ \A i \in DOMAIN processed :
                     /\ IsPrimaryManager(historical_data'[i].team1_manager_name,
                                         processed[i].matchup.teams[1])
                     /\ IsPrimaryManager(historical_data'[i].team2_manager_name,
                                         processed[i].matchup.teams[2])]_vars

\* The ledger names a co-manager for a team whose first listed manager is
\* the operator.
C16_Witness ==
    /\ LedgerExists
    /\ \E i \in DOMAIN historical_data \cap DOMAIN ProcessedMatchups(raw_data) :
           LET team == ProcessedMatchups(raw_data)[i].matchup.teams[1]
           IN  /\ Len(team.managers) > 1
               /\ team.managers[1] = YOUR_NICKNAME
               /\ historical_data[i].team1_manager_name \in
                      Range(team.managers) \ {YOUR_NICKNAME}

\* The winner of a ledger record as a function of its two scores.
WinnerByScores(g) ==
    IF g.team1_score > g.team2_score THEN g.team1_manager_name
    ELSE IF g.team2_score > g.team1_score THEN g.team2_manager_name
    ELSE None

\* The winners the ledger names for the games of a season with the given
\* game type, in ledger order.
LedgerWinners(ledger, season, game_type) ==
    LET Labelled(g) == g.season = season /\ g.game_type = game_type
        games == SelectSeq(ledger, Labelled)
    IN  [i \in DOMAIN games |-> games[i].winner_manager_name]

\* The regular-season wins of a manager by the winners the ledger names.
LedgerRegularWins(ledger, season_data, name) ==
    Cardinality({i \in DOMAIN ledger :
        /\ ledger[i].season = season_data.season
        /\ ledger[i].week < season_data.settings.playoff_start_week
        /\ ledger[i].winner_manager_name = name})

\* C17: the winner of a matchup is one function of the two scores, used
\* everywhere: the ledger names team 1's manager iff team 1 scored more,
\* team 2's manager iff team 2 scored more, and no winner iff the scores are
\* equal; the regular-season win counts of the seeding and the lists of QF
\* and SF winners are those of the same winners.
C17_WinnerIsOneFunctionOfScores ==
    [][BuildHistoricalData =>
          /\ \A i \in DOMAIN historical_data' :
                 historical_data'[i].winner_manager_name
                     = WinnerByScores(historical_data'[i])
          /\ \A s \in DOMAIN raw_data :
                 ~SeasonSkipped(raw_data[s]) =>
                     LET reg_matchups ==
                             RegularSeasonMatchups(raw_data[s].weeks,
                                                   raw_data[s].settings.playoff_start_week)
                     IN  /\ \A name \in RegularSeasonManagers(reg_matchups) :
                                RegSeasonRecord(reg_matchups, name).wins
                                    = LedgerRegularWins(historical_data', raw_data[s], name)
                         /\ \E orders \in SeedingOrders(raw_data) :
                                LET st == ClassifySeason(raw_data[s], orders[s])
                                IN  /\ historical_data'
                                           = build_historical_data_from_cache(raw_data, orders)
                                    /\ raw_data[s].settings.num_playoff_teams >= 6 =>
                                           st.qf_winners
                                               = LedgerWinners(historical_data',
                                                               raw_data[s].season, "QF")
                                    /\ st.semi_final_winners
                                           = LedgerWinners(historical_data',
                                                           raw_data[s].season, "SF")]_vars

(***************************************************************************)
(* Properties of the weekly update                                         *)
(***************************************************************************)

\* The records a full rebuild produces for the pair from the single week.
FirstMeetingRecords(week, key) ==
    LET raw == cache_all_raw_data(<<week>>)
    IN  UNION {LET ledger == build_historical_data_from_cache(raw, seeding)
               IN  {DictGet(initialize_h2h_records(ledger, order), key) :
                    order \in SetOrders(ManagerNames(ledger))} :
               seeding \in SeedingOrders(raw)}

\* C18: when the weekly update processes a non-tied, non-consolation game
\* of a pair that has no record in the H2H store, it creates the pair's
\* record as a first meeting, equal to the record a full rebuild produces
\* from that single game: the game is not dropped.
C18_MissingRecordIsFirstMeeting ==
    [][RunPreviewProcess =>
          \A i \in DOMAIN Last(api).matchups :
              LET matchup == Last(api).matchups[i]
                  manager1 == matchup.teams[1].managers[1]
                  manager2 == matchup.teams[2].managers[1]
                  key == PairKey(manager1, manager2)
              IN  (/\ ~matchup.is_tied
                   /\ ~matchup.is_consolation
                   /\ ~DictHas(h2h_records, key))
                      => /\ DictHas(h2h_records', key)
                         /\ DictGet(h2h_records', key)
                                \in FirstMeetingRecords(Last(api), key)]_vars

(***************************************************************************)
(* Properties of a second run                                              *)
(***************************************************************************)

\* The stored files are the output of a rebuild of the current snapshot.
RebuiltFromSnapshot ==
    /\ "h2h_records.json" \in files
    /\ h2h_weeks = <<>>
    /\ raw_data = cache_all_raw_data(api)

\* C19: a second run on the same snapshot and the same persisted files
\* writes the ledger and the H2H store of the first run: a rebuild of the
\* snapshot that was rebuilt, and a weekly update of the week that the store
\* reflects, leave both equal record for record and field for field.
C19_SecondRunWritesTheSameStore ==
    [][/\ (RunFullHistoricalBuild /\ RebuiltFromSnapshot)
             => /\ historical_data' = historical_data
                /\ h2h_records' = h2h_records
       /\ RerunPreviewProcess => h2h_records' = h2h_records]_vars

(***************************************************************************)
(* Properties of the records of the H2H store                              *)
(***************************************************************************)

\* The number of games of the history that the manager won.
WinsIn(history, name) ==
    Cardinality({i \in DOMAIN history : history[i].winner = name})

\* The record is keyed and oriented by the sorted pair of names.
CanonicalRecord(entry) ==
    LET record == entry.value
    IN  /\ StrLess(record.manager1_name, record.manager2_name)
        /\ entry.key = record.manager1_name \o "-" \o record.manager2_name
        /\ "regular_history" \in DOMAIN record
              => /\ record.reg_wins_1 = WinsIn(record.regular_history, record.manager1_name)
                 /\ record.reg_wins_2 = WinsIn(record.regular_history, record.manager2_name)
        /\ "playoff_history" \in DOMAIN record
              => /\ record.playoff_wins_1 = WinsIn(record.playoff_history, record.manager1_name)
                 /\ record.playoff_wins_2 = WinsIn(record.playoff_history, record.manager2_name)

\* C20: in every record of the H2H store, after a full rebuild, a weekly
\* update or a merge, manager1_name is lexicographically smaller than
\* manager2_name, the key is manager1_name-manager2_name, and the _1
\* counters count the wins of manager1_name.
C20_RecordsAreCanonical ==
    /\ \A i \in DOMAIN h2h_records : CanonicalRecord(h2h_records[i])
    /\ merge_error = "none" => \A i \in DOMAIN merged : CanonicalRecord(merged[i])

(***************************************************************************)
(* Properties of the seasons of the snapshot                               *)
(***************************************************************************)

\* The season of the snapshot lacks its settings or its weekly data.
IncompleteSeason(season_data) ==
    season_data.settings = NoSettings \/ season_data.weeks = <<>>

RECURSIVE SeasonBySeasonLedgers(_)
\* The ledgers that the seasons of the snapshot give one by one, each built
\* from a snapshot that holds that season alone, joined in snapshot order.
SeasonBySeasonLedgers(raw) ==
    IF raw = <<>> THEN {<<>>}
    ELSE LET alone == <<Last(raw)>>
         IN  {before \o build_historical_data_from_cache(alone, orders) :
              before \in SeasonBySeasonLedgers(Front(raw)),
              orders \in SeedingOrders(alone)}

\* The snapshot without its incomplete seasons.
CompleteSeasons(raw) ==
    LET Complete(season_data) == ~IncompleteSeason(season_data)
    IN  SelectSeq(raw, Complete)

\* C21: a season whose settings or weekly data are missing contributes no
\* record to the ledger, and every other season of the snapshot contributes
\* exactly the records it contributes when the incomplete season is absent:
\* a run of build_history.py ends as it ends on the snapshot without the
\* incomplete seasons, and the ledger it writes is the ledgers of the
\* complete seasons, each built alone, in snapshot order.
C21_IncompleteSeasonIsSkipped ==
    [][BuildHistoricalData =>
          LET complete == CompleteSeasons(raw_data)
          IN  IF RaisesIndexError(complete)
              THEN build_error' = "IndexError" /\ historical_data' = historical_data
              ELSE /\ build_error' = "none"
                   /\ "historical_data.json" \in files'
                   /\ historical_data' \in SeasonBySeasonLedgers(complete)
                   /\ \A i \in DOMAIN historical_data' :
                          \A s \in DOMAIN raw_data :
                              IncompleteSeason(raw_data[s])
                                  => historical_data'[i].season # raw_data[s].season]_vars

\* A ledger written from a snapshot in which a season without weekly data
\* comes before a complete season: the ledger holds the records of the
\* complete season.
C21_Witness ==
    /\ "historical_data.json" \in files
    /\ build_error = "none"
    /\ ~RaisesIndexError(raw_data)
    /\ historical_data \in SeasonBySeasonLedgers(CompleteSeasons(raw_data))
    /\ \E s, t \in DOMAIN raw_data :
           /\ s < t
           /\ IncompleteSeason(raw_data[s])
           /\ ~IncompleteSeason(raw_data[t])
           /\ \E i \in DOMAIN historical_data :
                  historical_data[i].season = raw_data[t].season

\* A team of the season has no manager.
HasZeroManagerTeam(season_data) ==
    \E w \in DOMAIN season_data.weeks :
        \E m \in DOMAIN season_data.weeks[w].matchups :
            \E t \in 1..2 : season_data.weeks[w].matchups[m].teams[t].managers = <<>>

\* The snapshot without the seasons that hold a team without managers.
ManagedSeasons(raw) ==
    LET Managed(season_data) == ~HasZeroManagerTeam(season_data)
    IN  SelectSeq(raw, Managed)

\* C22: a team with zero managers aborts the processing of its season
\* only: the run of build_history.py still writes the ledger, which holds
\* the complete records of every other season.
C22_ZeroManagerTeamAbortsItsSeasonOnly ==
    [][BuildHistoricalData =>
          /\ "historical_data.json" \in files'
          /\ historical_data'
                 \in SeasonBySeasonLedgers(CompleteSeasons(ManagedSeasons(raw_data)))]_vars

(***************************************************************************)
(* Properties of the unresolved bracket slots                              *)
(***************************************************************************)

\* The ledger holds the records of the matchups of the cached snapshot.
LedgerOfSnapshot ==
    LET processed == ProcessedMatchups(raw_data)
    IN  /\ LedgerExists
        /\ Len(historical_data) = Len(processed)
        /\ \A i \in DOMAIN processed : RecordOfMatchup(historical_data[i], processed[i])

\* The week offset of the last round of the bracket.
LastRound(settings) == IF settings.num_playoff_teams >= 6 THEN 2 ELSE 1

\* The i-th matchup of the ledger has no role in the bracket: its week lies
\* outside the rounds, or it is played in the week of the finals by managers
\* who are neither two winners nor two losers of the season's semi-finals.
NoBracketRole(i) ==
    LET g == historical_data[i]
        settings == SettingsOfSeason(g.season)
        week_offset == g.week - settings.playoff_start_week
        semi_finals == LedgerGames(g.season, {"SF"})
        pair == {g.team1_manager_name, g.team2_manager_name}
    IN  \/ week_offset < 0
        \/ week_offset > LastRound(settings)
        \/ /\ week_offset = LastRound(settings)
           /\ ~(pair \subseteq (WinnersOfGames(semi_finals) \ {None}))
           /\ ~(pair \subseteq LosersOfGames(semi_finals))

\* C23: every matchup flagged as a playoff game that fits no bracket role
\* under the week-offset rules is labelled consolation, in both bracket
\* shapes; it is never labelled regular, 1st or 3rd.
C23_UnresolvedSlotIsConsolation ==
    LedgerOfSnapshot =>
        \A i \in DOMAIN historical_data :
            (/\ ProcessedMatchups(raw_data)[i].matchup.is_playoffs
             /\ NoBracketRole(i))
                => historical_data[i].game_type = "consolation"

(***************************************************************************)
(* Invariants of the records of the H2H store                              *)
(***************************************************************************)

\* The records of the stored H2H store and of the store a merge returned.
StoreRecords ==
    {h2h_records[i].value : i \in DOMAIN h2h_records}
        \cup (IF merge_error = "none"
              THEN {merged[i].value : i \in DOMAIN merged}
              ELSE {})

\* C24: after a full rebuild, after any number of weekly updates and after
\* an identity merge, each record of the H2H store satisfies
\* reg_wins_1 + reg_wins_2 = length of regular_history.
C24_RegularWinsMatchRegularHistory ==
    \A record \in StoreRecords :
        /\ "regular_history" \in DOMAIN record
        /\ record.reg_wins_1 + record.reg_wins_2 = Len(record.regular_history)

\* The games of the history are in the order of their (season, week).
Chronological(history) ==
    \A i, j \in DOMAIN history :
        i < j => \/ history[i].season < history[j].season
                 \/ /\ history[i].season = history[j].season
                    /\ history[i].week <= history[j].week

\* C25: after a full rebuild, after any number of weekly updates and after
\* an identity merge, playoff_history and regular_history of each record of
\* the H2H store are sorted ascending by (season, week).
C25_HistoriesAreChronological ==
    \A record \in StoreRecords :
        /\ "playoff_history" \in DOMAIN record => Chronological(record.playoff_history)
        /\ "regular_history" \in DOMAIN record => Chronological(record.regular_history)

(***************************************************************************)
(* Properties of the two classifiers                                       *)
(***************************************************************************)

\* C26: for every matchup of a completed week, the game_type computed
\* inside update_h2h_records equals the game_type that
\* build_historical_data_from_cache writes to the ledger for the same
\* matchup, given the same season data and settings.
C26_UpdateClassifiesAsTheLedger ==
    LedgerOfSnapshot =>
        \A i \in DOMAIN historical_data :
            LET entry == ProcessedMatchups(raw_data)[i]
            IN  UpdateGameType(entry.matchup, SettingsOfSeason(entry.season))
                    = historical_data[i].game_type

(***************************************************************************)
(* Properties of the refresh run of build_site.py                          *)
(***************************************************************************)

\* A run of build_site.py that refreshes the data: leagues.json lists the
\* target season and the step is no stuttering step.
RefreshRun == BuildSite /\ last_processed_week' = LastCompletedWeek
                        /\ "preview_data.json" \in files'

\* The fields of a record that count its games.
GameCounts(record) ==
    [reg_wins_1 |-> record.reg_wins_1, reg_wins_2 |-> record.reg_wins_2,
     playoff_wins_1 |-> record.playoff_wins_1,
     playoff_wins_2 |-> record.playoff_wins_2,
     regular_history |-> record.regular_history,
     playoff_history |-> record.playoff_history,
     streak_len |-> record.streak_len]

SameGameCounts(store, rebuilt) ==
    /\ Len(store) = Len(rebuilt)
    /\ \A i \in DOMAIN store :
           /\ DictHas(rebuilt, store[i].key)
           /\ GameCounts(store[i].value)
                  = GameCounts(DictGet(rebuilt, store[i].key))

\* C27: after a refresh run of build_site.py the persisted H2H store counts
\* each game of the last completed week exactly once: every pair's win
\* counters, histories and streak length are those of a single full rebuild
\* over the ledger the run wrote.
C27_RefreshCountsLastWeekOnce ==
    [][RefreshRun =>
           \E order \in SetOrders(ManagerNames(historical_data')) :
               SameGameCounts(h2h_records',
                                initialize_h2h_records(historical_data', order))]_vars

\* C28: in a refresh run the weekly cache file of the last completed week is
\* present when update_raw_data_cache reads it as step 1, so the step adds
\* the week to the raw cache instead of aborting.
C28_WeeklyCacheFilePresentAtStepOne ==
    [][RefreshRun =>
           WeeklyCacheFile(LastCompletedWeek)
               \in ClearWeeklyCache(IF "h2h_records.json" \in files
                                    THEN files
                                    ELSE files \cup HistoricalBuildFiles)]_vars

(***************************************************************************)
(* Properties of the two streaks of a record                               *)
(***************************************************************************)

\* C29: in every record of the H2H store, after a full rebuild followed by
\* any number of weekly updates, the longest streak is at least as long as
\* the current streak, and when a manager holds both and the two have the
\* same length the longest streak ends at the record's last counted game.
C29_LongestStreakCoversCurrentStreak ==
    \A r \in Records(h2h_records) :
        /\ r.longest_streak_len >= r.streak_len
        /\ (r.streak_holder # None
               /\ r.longest_streak_len = r.streak_len
               /\ r.longest_streak_holder = r.streak_holder)
           => r.longest_streak_end_game = r.last_game

(***************************************************************************)
(* Properties of the completion of the merge                               *)
(***************************************************************************)

\* C30: merge_manager_data completes and returns a store for every store it
\* is given, the store in which the canonical identity has no record against
\* one of the alias's opponents included: no run of a dashboard ends with an
\* exception raised by the merge.
C30_MergeCompletes ==
    merge_by # "none" => merge_error = "none"

====
